---- MODULE Spec2Model ----
(***************************************************************************)
(* Model of the MAGS NAV calculator (src/mags.py, src/mags2.py): the       *)
(* weight normalizer, the what-if scenario engine and the StockAnalysis    *)
(* holdings builder.                                                       *)
(*                                                                         *)
(* Python floats are binary floating-point numbers.  They are modelled as  *)
(* records [neg, m, e] of value (-1)^neg * m * 2^e with a Prec-bit         *)
(* mantissa (m = 0, or 2^(Prec-1) <= m < 2^Prec) and every operation       *)
(* rounding its exact result to nearest, ties to even, as IEEE-754 does.   *)
(* Prec is smaller than the 53 bits of a Python float so that every        *)
(* intermediate integer fits the model checker's integers; exponents are   *)
(* unbounded (no overflow to inf, no subnormals).                          *)
(*                                                                         *)
(* Python strings are TLA+ strings; dicts are sequences of [k, v] records  *)
(* with pairwise distinct keys, in insertion order.                        *)
(***************************************************************************)
EXTENDS Integers, Sequences, FiniteSets, TLC

\* ------------------------------------------------------------------------
\* Bounds of the model
\* ------------------------------------------------------------------------
\* Bits of mantissa of the modelled float (53 in CPython).
Prec == 12
\* Largest number of entries of a weight mapping drawn as an input.
MaxHoldings == 2
\* Largest number of entries of a bump mapping drawn as an input.
MaxBumps == 2
\* Largest number of table rows of a holdings page drawn as an input.
MaxRows == 3
\* Largest number of weights of a mapping given to _normalize on its own.
MaxWeights == 3
\* Largest number of entries of a bump text drawn as an input.
MaxLines == 3
\* Largest number of holdings Yahoo Finance reports, drawn as an input.
MaxYfRows == 2
\* Largest number of rows of the Roundhill holdings table drawn as an input.
MaxPairs == 2

\* ------------------------------------------------------------------------
\* Floating point
\* ------------------------------------------------------------------------
RECURSIVE Pow2(_)
Pow2(n) == IF n <= 0 THEN 1 ELSE 2 * Pow2(n - 1)

RECURSIVE Pow10(_)
Pow10(n) == IF n <= 0 THEN 1 ELSE 10 * Pow10(n - 1)

\* Number of bits of the natural number n (0 for 0).
RECURSIVE BitLen(_)
BitLen(n) == IF n = 0 THEN 0 ELSE 1 + BitLen(n \div 2)

Abs(i) == IF i < 0 THEN -i ELSE i

FZero == [neg |-> FALSE, m |-> 0, e |-> 0]

\* The float nearest to (-1)^neg * n * 2^e (n a natural number), ties to even.
FRound(neg, n, e) ==
  IF n = 0 THEN [neg |-> neg, m |-> 0, e |-> 0]
  ELSE LET k == BitLen(n) - Prec IN
       IF k <= 0 THEN [neg |-> neg, m |-> n * Pow2(-k), e |-> e + k]
       ELSE LET q    == n \div Pow2(k)
                r    == n % Pow2(k)
                half == Pow2(k - 1)
                up   == r > half \/ (r = half /\ q % 2 = 1)
                m1   == IF up THEN q + 1 ELSE q
            IN IF m1 = Pow2(Prec)
               THEN [neg |-> neg, m |-> Pow2(Prec - 1), e |-> e + k + 1]
               ELSE [neg |-> neg, m |-> m1, e |-> e + k]

\* float(i) for a Python int i.
FromInt(i) == FRound(i < 0, Abs(i), 0)

FNeg(a) == [a EXCEPT !.neg = ~a.neg]

FIsZero(a) == a.m = 0

\* a == b on floats (0.0 == -0.0).
FEq(a, b) == (a.m = 0 /\ b.m = 0) \/ a = b

\* a * b.
FMul(a, b) == FRound(a.neg # b.neg, a.m * b.m, a.e + b.e)

\* a / b for b # 0 (Python raises ZeroDivisionError otherwise).  The quotient
\* is computed to Prec + 2 bits and a sticky bit for the remainder.
FDiv(a, b) ==
  IF a.m = 0 THEN [neg |-> a.neg # b.neg, m |-> 0, e |-> 0]
  ELSE LET num == a.m * Pow2(Prec + 2)
           q   == num \div b.m
           s   == IF num % b.m = 0 THEN 0 ELSE 1
       IN FRound(a.neg # b.neg, 2 * q + s, a.e - b.e - Prec - 3)

\* |a| + |b| or |a| - |b| for nonzero a, b with |a| >= |b|, signed neg.
FAddMag(neg, a, b, sub) ==
  LET d == a.e - b.e IN
  IF d > Prec + 2
  THEN FRound(neg, IF sub THEN 8 * a.m - 1 ELSE 8 * a.m + 1, a.e - 3)
  ELSE LET n == IF sub THEN a.m * Pow2(d) - b.m ELSE a.m * Pow2(d) + b.m
       IN IF n = 0 THEN FZero ELSE FRound(neg, n, b.e)

\* |a| >= |b| for normalized floats.
FMagGeq(a, b) ==
  \/ b.m = 0
  \/ a.m # 0 /\ (a.e > b.e \/ (a.e = b.e /\ a.m >= b.m))

\* a + b.
FAdd(a, b) ==
  IF a.m = 0 /\ b.m = 0 THEN [neg |-> a.neg /\ b.neg, m |-> 0, e |-> 0]
  ELSE IF a.m = 0 THEN b
  ELSE IF b.m = 0 THEN a
  ELSE IF FMagGeq(a, b) THEN FAddMag(a.neg, a, b, a.neg # b.neg)
  ELSE FAddMag(b.neg, b, a, a.neg # b.neg)

\* a - b.
FSub(a, b) == FAdd(a, FNeg(b))

\* The float of a decimal literal: digits n with k of them after the point.
FDec(n, k) == FDiv(FromInt(n), FromInt(Pow10(k)))

\* The absent value (Python None).
None == [none |-> TRUE]

\* ------------------------------------------------------------------------
\* Strings
\* ------------------------------------------------------------------------
LowerCase == "abcdefghijklmnopqrstuvwxyz"

UpperCase == "ABCDEFGHIJKLMNOPQRSTUVWXYZ"

Digits == "0123456789"

\* The i-th character of s, as a one-character string.
Char(s, i) == SubSeq(s, i, i)

\* The position of character c in s, 0 if it does not occur.
RECURSIVE IndexOf(_, _, _)
IndexOf(s, c, i) ==
  IF i > Len(s) THEN 0 ELSE IF Char(s, i) = c THEN i ELSE IndexOf(s, c, i + 1)

\* The upper-case letter of each of the first n lower-case letters.
RECURSIVE UpperOfFirst(_)
UpperOfFirst(n) ==
  IF n = 0 THEN [c \in {} |-> c]
  ELSE (Char(LowerCase, n) :> Char(UpperCase, n)) @@ UpperOfFirst(n - 1)

UpperOf == UpperOfFirst(Len(LowerCase))

UpperChar(c) == IF c \in DOMAIN UpperOf THEN UpperOf[c] ELSE c

\* s.upper()
RECURSIVE Upper(_)
Upper(s) == IF Len(s) = 0 THEN "" ELSE UpperChar(Head(s)) \o Upper(Tail(s))

IsSpace(c) == c \in {" ", "\t", "\n", "\r"}

IsDigit(c) == IndexOf(Digits, c, 1) # 0

RECURSIVE LStrip(_)
LStrip(s) == IF Len(s) > 0 /\ IsSpace(Head(s)) THEN LStrip(Tail(s)) ELSE s

RECURSIVE RStrip(_)
RStrip(s) ==
  IF Len(s) > 0 /\ IsSpace(Char(s, Len(s)))
  THEN RStrip(SubSeq(s, 1, Len(s) - 1)) ELSE s

\* s.strip()
Strip(s) == RStrip(LStrip(s))

\* sub in s
Contains(s, sub) ==
  \E i \in 1..(Len(s) - Len(sub) + 1) : SubSeq(s, i, i + Len(sub) - 1) = sub

\* The decimal digits of the natural number n.
RECURSIVE NatStr(_)
NatStr(n) ==
  IF n < 10 THEN Char(Digits, n + 1)
  ELSE NatStr(n \div 10) \o Char(Digits, (n % 10) + 1)

\* The digits of n left-padded with zeros to k places.
RECURSIVE PadStr(_, _)
PadStr(n, k) ==
  IF k <= 0 THEN "" ELSE PadStr(n \div 10, k - 1) \o Char(Digits, (n % 10) + 1)

\* The value of a string of decimal digits.
RECURSIVE DigitsVal(_)
DigitsVal(s) ==
  IF Len(s) = 0 THEN 0
  ELSE 10 * DigitsVal(SubSeq(s, 1, Len(s) - 1))
       + (IndexOf(Digits, Char(s, Len(s)), 1) - 1)

\* |x| * 10^k rounded to the nearest integer, ties to even (the digits that
\* the format specifier .kf prints).
ScaledRound(x, k) ==
  IF x.m = 0 THEN 0
  ELSE IF x.e >= 0 THEN x.m * Pow2(x.e) * Pow10(k)
  ELSE IF -x.e > 28 THEN 0
  ELSE LET num == x.m * Pow10(k)
           den == Pow2(-x.e)
           q   == num \div den
           r   == num % den
       IN IF 2 * r > den \/ (2 * r = den /\ q % 2 = 1) THEN q + 1 ELSE q

\* f"{x:.kf}" (plus = FALSE) and f"{x:+.kf}" (plus = TRUE).
Format(x, k, plus) ==
  LET n == ScaledRound(x, k) IN
  (IF x.neg THEN "-" ELSE IF plus THEN "+" ELSE "")
  \o NatStr(n \div Pow10(k)) \o "." \o PadStr(n % Pow10(k), k)

\* ------------------------------------------------------------------------
\* Dicts: sequences of [k, v] with distinct keys, in insertion order
\* ------------------------------------------------------------------------
HasKey(d, key) == \E i \in 1..Len(d) : d[i].k = key

\* d.get(key, default)
DictGet(d, key, default) ==
  IF HasKey(d, key)
  THEN d[CHOOSE i \in 1..Len(d) : d[i].k = key].v
  ELSE default

\* d[key] = val: an existing key keeps its position, a new key is appended.
DictSet(d, key, val) ==
  IF HasKey(d, key)
  THEN [d EXCEPT ![CHOOSE i \in 1..Len(d) : d[i].k = key] = [k |-> key, v |-> val]]
  ELSE Append(d, [k |-> key, v |-> val])

\* ------------------------------------------------------------------------
\* Module constants
\* ------------------------------------------------------------------------
MAG7_TICKERS == <<"NVDA", "AAPL", "MSFT", "GOOGL", "AMZN", "META", "TSLA">>

NAME_TO_TICKER ==
  << [k |-> "NVIDIA",         v |-> "NVDA"],
     [k |-> "Alphabet",       v |-> "GOOGL"],
     [k |-> "AMAZON.COM INC", v |-> "AMZN"],
     [k |-> "Amazon",         v |-> "AMZN"],
     [k |-> "Tesla",          v |-> "TSLA"],
     [k |-> "Apple",          v |-> "AAPL"],
     [k |-> "Microsoft",      v |-> "MSFT"],
     [k |-> "Meta Platforms", v |-> "META"],
     [k |-> "Meta",           v |-> "META"] >>

\* {k.strip().upper(): v for k, v in d.items()} over the first n items of d.
RECURSIVE StripUpperKeys(_, _)
StripUpperKeys(d, n) ==
  IF n = 0 THEN <<>>
  ELSE DictSet(StripUpperKeys(d, n - 1), Upper(Strip(d[n].k)), d[n].v)

NAME_TO_TICKER_NORM == StripUpperKeys(NAME_TO_TICKER, Len(NAME_TO_TICKER))

\* ------------------------------------------------------------------------
\* _normalize
\* ------------------------------------------------------------------------
\* sum(weights.values()): the values of the first n items added left to right,
\* starting from the int 0.
RECURSIVE SumValues(_, _)
SumValues(weights, n) ==
  IF n = 0 THEN FZero ELSE FAdd(SumValues(weights, n - 1), weights[n].v)

\* A divisor that is the number of weights instead of their sum.
NormDivisorCount(weights) ==
  IF Len(weights) = 0 THEN FromInt(1) ELSE FromInt(Len(weights))

\* s = sum(weights.values()) or 1.0
NormDivisor(weights) ==
  LET s == SumValues(weights, Len(weights)) IN
  IF FIsZero(s) THEN FromInt(1) ELSE s

\* A scaling to fractions of 1 instead of percentages.
NormScaleFraction(v, s) == FDiv(v, s)

\* v * 100.0 / s
NormScale(v, s) == FDiv(FMul(v, FromInt(100)), s)

\* def _normalize(weights)
normalize(weights) ==
  LET s == NormDivisor(weights) IN
  [i \in 1..Len(weights) |-> [k |-> weights[i].k, v |-> NormScale(weights[i].v, s)]]

\* ------------------------------------------------------------------------
\* compute_nav_what_if
\* ------------------------------------------------------------------------
\* A working mapping made of both mappings, one after the other.
WorkingHoldingsMerged(data) == data.holdings \o data.holdings_by_name

\* holdings = data.holdings.copy(); falls back to holdings_by_name when empty.
WorkingHoldings(data) ==
  IF Len(data.holdings) = 0 /\ Len(data.holdings_by_name) > 0
  THEN data.holdings_by_name
  ELSE data.holdings

\* weights = _normalize(holdings) if normalize_weights else holdings
WorkingWeights(data, normalize_weights) ==
  IF normalize_weights THEN normalize(WorkingHoldings(data))
  ELSE WorkingHoldings(data)

\* bumps_norm = {k.strip().upper(): float(v) for k, v in bumps.items()}
BumpsNorm(bumps) == StripUpperKeys(bumps, Len(bumps))

\* A resolution that looks for the "ALL" entry first.
ResolveMoveAllFirst(bumps_norm, key) ==
  LET keyU == Upper(Strip(key)) IN
  IF HasKey(bumps_norm, "ALL") THEN DictGet(bumps_norm, "ALL", FZero)
  ELSE IF HasKey(bumps_norm, keyU) THEN DictGet(bumps_norm, keyU, FZero)
  ELSE IF HasKey(NAME_TO_TICKER_NORM, keyU)
  THEN DictGet(bumps_norm, DictGet(NAME_TO_TICKER_NORM, keyU, ""), FZero)
  ELSE FZero

\* A resolution without the "ALL" entry.
ResolveMoveNoWildcard(bumps_norm, key) ==
  LET keyU == Upper(Strip(key)) IN
  IF HasKey(bumps_norm, keyU) THEN DictGet(bumps_norm, keyU, FZero)
  ELSE IF HasKey(NAME_TO_TICKER_NORM, keyU)
  THEN DictGet(bumps_norm, DictGet(NAME_TO_TICKER_NORM, keyU, ""), FZero)
  ELSE FZero

\* A resolution that does not look a name's ticker up.
ResolveMoveNoTicker(bumps_norm, key) ==
  LET keyU == Upper(Strip(key)) IN
  IF HasKey(bumps_norm, keyU) THEN DictGet(bumps_norm, keyU, FZero)
  ELSE DictGet(bumps_norm, "ALL", FZero)

\* The move of one holding key: exact key, then its ticker, then "ALL", then 0.
ResolveMove(bumps_norm, key) ==
  LET keyU == Upper(Strip(key))
      byTicker ==
        IF HasKey(NAME_TO_TICKER_NORM, keyU)
        THEN DictGet(bumps_norm, DictGet(NAME_TO_TICKER_NORM, keyU, ""), None)
        ELSE None
      move == IF HasKey(bumps_norm, keyU)
              THEN DictGet(bumps_norm, keyU, None)
              ELSE byTicker
  IN IF move = None THEN DictGet(bumps_norm, "ALL", FZero) ELSE move

\* w * move, the "Contrib bps" column.
ContribBps(w, move) == FMul(w, move)

\* A contribution taken as a fraction of 1: (w * move) / 10000.
ContribPctFraction(w, move) == FDiv(FMul(w, move), FromInt(10000))

\* contrib_pct = (w * move) / 100.0
ContribPct(w, move) == FDiv(FMul(w, move), FromInt(100))

\* total_contrib_pct after the first n iterations of the loop.
RECURSIVE TotalContrib(_, _, _)
TotalContrib(weights, bumps_norm, n) ==
  IF n = 0 THEN FZero
  ELSE FAdd(TotalContrib(weights, bumps_norm, n - 1),
            ContribPct(weights[n].v, ResolveMove(bumps_norm, weights[n].k)))

\* The row appended for one holding.
WhatIfRow(key, w, move) ==
  [ Holding     |-> key,
    Weight_pct  |-> Format(w, 2, FALSE),
    Move_pct    |-> Format(move, 2, TRUE),
    Contrib_bps |-> Format(ContribBps(w, move), 2, FALSE),
    Contrib_pct |-> Format(ContribPct(w, move), 4, FALSE) ]

\* A base NAV that prefers the assumed NAV.
BaseNavAssumedFirst(data, assume_nav) ==
  IF assume_nav # None THEN assume_nav ELSE data.nav

\* base_nav = data.nav if data.nav is not None else assume_nav
BaseNav(data, assume_nav) == IF data.nav # None THEN data.nav ELSE assume_nav

\* A projection that takes a NAV of 1 when there is no base NAV.
NewNavDefaultBase(base_nav, total_contrib_pct) ==
  FMul(IF base_nav # None THEN base_nav ELSE FromInt(1),
       FAdd(FromInt(1), FDiv(total_contrib_pct, FromInt(100))))

\* A projection without the test for a missing base NAV: None * float raises.
NewNavUnguarded(base_nav, total_contrib_pct) ==
  IF base_nav # None
  THEN FMul(base_nav, FAdd(FromInt(1), FDiv(total_contrib_pct, FromInt(100))))
  ELSE [raised |-> "TypeError"]

\* new_nav = base_nav * (1.0 + total_contrib_pct / 100.0) if base_nav is not None else None
NewNav(base_nav, total_contrib_pct) ==
  IF base_nav # None
  THEN FMul(base_nav, FAdd(FromInt(1), FDiv(total_contrib_pct, FromInt(100))))
  ELSE None

\* def compute_nav_what_if(data, bumps, assume_nav, normalize_weights)
compute_nav_what_if(data, bumps, assume_nav, normalize_weights) ==
  LET weights    == WorkingWeights(data, normalize_weights)
      bumps_norm == BumpsNorm(bumps)
      total      == TotalContrib(weights, bumps_norm, Len(weights))
      base_nav   == BaseNav(data, assume_nav)
  IN [ rows |-> [i \in 1..Len(weights) |->
                   WhatIfRow(weights[i].k, weights[i].v,
                             ResolveMove(bumps_norm, weights[i].k))],
       total_contrib_pct |-> total,
       base_nav |-> base_nav,
       new_nav  |-> NewNav(base_nav, total) ]

\* ------------------------------------------------------------------------
\* _coerce_percent_to_float
\* ------------------------------------------------------------------------
\* The first position at or after p of s that holds no digit.
RECURSIVE SkipDigits(_, _)
SkipDigits(s, p) ==
  IF p <= Len(s) /\ IsDigit(Char(s, p)) THEN SkipDigits(s, p + 1) ELSE p

\* The first position at or after p of s that holds no whitespace.
RECURSIVE SkipSpaces(_, _)
SkipSpaces(s, p) ==
  IF p <= Len(s) /\ IsSpace(Char(s, p)) THEN SkipSpaces(s, p + 1) ELSE p

\* The match of [+-]?\d+(?:\.\d+)? at the start of s: the position after it
\* (0 when there is none) with the sign, the digits and the fraction digits.
NumberAt(s) ==
  LET signed == Len(s) > 0 /\ Head(s) \in {"+", "-"}
      p      == IF signed THEN 2 ELSE 1
      q      == SkipDigits(s, p)
      r      == IF q <= Len(s) /\ Char(s, q) = "." THEN SkipDigits(s, q + 1) ELSE q
      frac   == r > q + 1
  IN [ end  |-> IF q = p THEN 0 ELSE IF frac THEN r ELSE q,
       neg  |-> signed /\ Head(s) = "-",
       int  |-> SubSeq(s, p, q - 1),
       frac |-> IF frac THEN SubSeq(s, q + 1, r - 1) ELSE "" ]

\* float(text) of a matched number.
NumberValue(n) ==
  LET x == FDec(DigitsVal(n.int \o n.frac), Len(n.frac)) IN
  IF n.neg THEN FNeg(x) ELSE x

\* Whether ([+-]?\d+(?:\.\d+)?)\s*%?$ matches s from its first character.
PercentMatches(s) ==
  LET n == NumberAt(s)
      a == SkipSpaces(s, n.end)
      b == IF a <= Len(s) /\ Char(s, a) = "%" THEN a + 1 ELSE a
  IN n.end # 0 /\ (b = Len(s) + 1 \/ (b = Len(s) /\ Char(s, b) = "\n"))

\* re.search: the match at the leftmost position of s that has one.
RECURSIVE PercentSearch(_)
PercentSearch(s) ==
  IF PercentMatches(s) THEN NumberValue(NumberAt(s))
  ELSE IF Len(s) = 0 THEN None
  ELSE PercentSearch(Tail(s))

\* def _coerce_percent_to_float(s), for a string s
coerce_percent_to_float(s) == PercentSearch(Strip(s))

\* float(text) for the decimal texts of the model; None stands for ValueError.
ParseFloat(text) ==
  LET t == Strip(text)
      n == NumberAt(t)
  IN IF n.end = Len(t) + 1 /\ n.end # 0 THEN NumberValue(n) ELSE None

\* ------------------------------------------------------------------------
\* _parse_bump_arg and _parse_bumps_text
\* ------------------------------------------------------------------------
\* The position of the first ":" or "=" of s at or after p, 0 for none.
RECURSIVE FirstSeparator(_, _)
FirstSeparator(s, p) ==
  IF p > Len(s) THEN 0
  ELSE IF Char(s, p) \in {":", "="} THEN p
  ELSE FirstSeparator(s, p + 1)

\* Whether \s*([+-]?\d+(?:\.\d+)?)\s*%?\s*$ matches all of s.
BumpNumberMatches(s) ==
  LET t == LStrip(s)
      n == NumberAt(t)
      a == SkipSpaces(t, n.end)
      b == IF a <= Len(t) /\ Char(t, a) = "%" THEN a + 1 ELSE a
  IN n.end # 0 /\ SkipSpaces(t, b) = Len(t) + 1

\* A parser that takes ":" alone for the separator.
ParseBumpArgColonOnly(s) ==
  LET i == FirstSeparator(s, 1) IN
  IF i <= 1 \/ Char(s, i) # ":" THEN None
  ELSE IF ~BumpNumberMatches(SubSeq(s, i + 1, Len(s))) THEN None
  ELSE [ k |-> Strip(SubSeq(s, 1, i - 1)),
         v |-> NumberValue(NumberAt(LStrip(SubSeq(s, i + 1, Len(s))))) ]

\* def _parse_bump_arg(s): the key is what comes before the first ":" or "="
\* (one character at least), the number what comes after it; None for no match.
ParseBumpArg(s) ==
  LET i == FirstSeparator(s, 1) IN
  IF i <= 1 THEN None
  ELSE IF ~BumpNumberMatches(SubSeq(s, i + 1, Len(s))) THEN None
  ELSE [ k |-> Strip(SubSeq(s, 1, i - 1)),
         v |-> NumberValue(NumberAt(LStrip(SubSeq(s, i + 1, Len(s))))) ]

\* re.split(r"[\n,;]+", block): the pieces of the characters of block from
\* position p on, piece being the one under way and run telling that the
\* character before was a separator.
RECURSIVE SplitFrom(_, _, _, _)
SplitFrom(block, p, piece, run) ==
  IF p > Len(block) THEN <<piece>>
  ELSE IF Char(block, p) \in {"\n", ",", ";"}
  THEN IF run THEN SplitFrom(block, p + 1, piece, TRUE)
       ELSE <<piece>> \o SplitFrom(block, p + 1, "", TRUE)
  ELSE SplitFrom(block, p + 1, piece \o Char(block, p), FALSE)

SplitBumps(block) == SplitFrom(block, 1, "", FALSE)

\* out after the first n pieces.
RECURSIVE ParsePieces(_, _)
ParsePieces(pieces, n) ==
  IF n = 0 THEN <<>>
  ELSE LET out    == ParsePieces(pieces, n - 1)
           parsed == ParseBumpArg(pieces[n])
       IN IF parsed = None THEN out ELSE DictSet(out, parsed.k, parsed.v)

\* def _parse_bumps_text(block)
parse_bumps_text(block) ==
  IF block = "" THEN <<>>
  ELSE ParsePieces(SplitBumps(block), Len(SplitBumps(block)))

\* A parser that reports each piece it drops.
BumpWarningsPerReject(block) ==
  LET pieces == SplitBumps(block) IN
  SelectSeq(pieces, LAMBDA p : ParseBumpArg(p) = None)

\* What _parse_bumps_text lets its caller know besides the mapping it
\* returns: it raises nothing, returns nothing else and shows no message.
BumpWarnings(block) == <<>>

\* ------------------------------------------------------------------------
\* Dates: the days of November 2026 (the 2nd is a Monday)
\* ------------------------------------------------------------------------
\* date.weekday() of day d of the month: Monday is 0.
Weekday(d) == (d + 5) % 7

\* _fmt_us_date
fmt_us_date(d) == "11/" \o NatStr(d) \o "/2026"

\* The last day at or before d that is no Saturday or Sunday.
RECURSIVE LastWeekday(_)
LastWeekday(d) == IF Weekday(d) >= 5 THEN LastWeekday(d - 1) ELSE d

\* def _last_weekday_str(), with today the day the clock shows
last_weekday_str(today) == fmt_us_date(LastWeekday(today))

\* ------------------------------------------------------------------------
\* parse_mags_from_stockanalysis
\* ------------------------------------------------------------------------
\* MAGSData()
NewMAGSData ==
  [nav |-> None, date |-> "Unknown", holdings |-> <<>>, holdings_by_name |-> <<>>]

InMag7(symbol) == \E i \in 1..Len(MAG7_TICKERS) : MAG7_TICKERS[i] = symbol

\* The rows skipped as treasury bills and cash.
IsCashLike(name) ==
  \E x \in {"TREASURY", "BILL", "CASH", "FUND"} : Contains(name, x)

\* The ticker a row is matched to ("" for none): the symbol of a direct
\* holding, or the company found in the name of a swap.
MatchedTicker(symbol, name) ==
  IF InMag7(symbol) THEN symbol
  ELSE IF Contains(name, "SWAP") THEN
    IF Contains(name, "NVDA") \/ Contains(name, "NVIDIA") THEN "NVDA"
    ELSE IF Contains(name, "GOOGL") \/ Contains(name, "ALPHABET") THEN "GOOGL"
    ELSE IF Contains(name, "AMZN") \/ Contains(name, "AMAZON") THEN "AMZN"
    ELSE IF Contains(name, "TSLA") \/ Contains(name, "TESLA") THEN "TSLA"
    ELSE IF Contains(name, "AAPL") \/ Contains(name, "APPLE") THEN "AAPL"
    ELSE IF Contains(name, "MSFT") \/ Contains(name, "MICROSOFT") THEN "MSFT"
    ELSE IF Contains(name, "META") THEN "META"
    ELSE ""
  ELSE ""

\* An assignment of the row's weight in place of the addition.
AccumulateOverwrite(mag7_holdings, ticker, weight) ==
  DictSet(mag7_holdings, ticker, weight)

\* mag7_holdings[matched_ticker] += weight, from 0.0 for a new ticker.
Accumulate(mag7_holdings, ticker, weight) ==
  DictSet(mag7_holdings, ticker,
          FAdd(DictGet(mag7_holdings, ticker, FZero), weight))

\* One iteration of the loop over the table rows; a row is its cells' texts.
SaRow(mag7_holdings, cells) ==
  IF Len(cells) < 4 THEN mag7_holdings
  ELSE LET symbol == cells[2]
           name   == Upper(cells[3])
           weight == coerce_percent_to_float(cells[4])
           ticker == MatchedTicker(symbol, name)
       IN IF IsCashLike(name) THEN mag7_holdings
          ELSE IF weight = None \/ FIsZero(weight) THEN mag7_holdings
          ELSE IF ticker = "" THEN mag7_holdings
          ELSE Accumulate(mag7_holdings, ticker, weight)

\* mag7_holdings after the first n rows.
RECURSIVE SaRows(_, _)
SaRows(rows, n) ==
  IF n = 0 THEN <<>> ELSE SaRow(SaRows(rows, n - 1), rows[n])

SaNameMap ==
  << [k |-> "NVDA",  v |-> "NVIDIA"],
     [k |-> "AAPL",  v |-> "Apple"],
     [k |-> "MSFT",  v |-> "Microsoft"],
     [k |-> "GOOGL", v |-> "Alphabet"],
     [k |-> "AMZN",  v |-> "AMAZON.COM INC"],
     [k |-> "META",  v |-> "Meta Platforms"],
     [k |-> "TSLA",  v |-> "Tesla"] >>

\* data.holdings_by_name after the first n tickers of mag7_holdings.
RECURSIVE SaByName(_, _)
SaByName(mag7_holdings, n) ==
  IF n = 0 THEN <<>>
  ELSE DictSet(SaByName(mag7_holdings, n - 1),
               DictGet(SaNameMap, mag7_holdings[n].k, mag7_holdings[n].k),
               mag7_holdings[n].v)

\* The NAV read from the main page: price is [text |-> the text of the price
\* element], or None when the request fails or the page has no such element.
SaNav(price) ==
  IF price = None THEN None ELSE ParseFloat(price.text)

\* A builder that returns whatever it gathered, without the raise.
parse_mags_from_stockanalysis_unchecked(rows, price, today) ==
  LET mag7_holdings == SaRows(rows, Len(rows)) IN
  [ nav  |-> SaNav(price),
    date |-> last_weekday_str(today),
    holdings |-> mag7_holdings,
    holdings_by_name |-> SaByName(mag7_holdings, Len(mag7_holdings)) ]

\* def parse_mags_from_stockanalysis(): rows are the rows of the holdings
\* table after its header.  The result is the snapshot, or raised.
parse_mags_from_stockanalysis(rows, price, today) ==
  LET mag7_holdings == SaRows(rows, Len(rows)) IN
  IF Len(mag7_holdings) = 0
  THEN [raised |-> "No MAG7 holdings found"]
  ELSE [ nav  |-> SaNav(price),
         date |-> last_weekday_str(today),
         holdings |-> mag7_holdings,
         holdings_by_name |-> SaByName(mag7_holdings, Len(mag7_holdings)) ]

\* ------------------------------------------------------------------------
\* parse_mags_from_yfinance
\* ------------------------------------------------------------------------
\* a or b, for numbers that may be None: a unless it is None or 0.
PyOr(a, b) == IF a = None THEN b ELSE IF FIsZero(a) THEN b ELSE a

\* A number that may be None is falsy when it is None or 0.
Falsy(x) == IF x = None THEN TRUE ELSE FIsZero(x)

\* One iteration of the loop over holdings_dict["holdings"]: a holding is
\* [symbol, holdingPercent] with or without holdingName.
YfHolding(d, holding) ==
  IF holding.symbol = "" \/ Falsy(holding.holdingPercent) THEN d
  ELSE LET weight_pct == FMul(holding.holdingPercent, FromInt(100))
           name == IF "holdingName" \in DOMAIN holding
                   THEN holding.holdingName ELSE holding.symbol
       IN [ holdings |-> DictSet(d.holdings, holding.symbol, weight_pct),
            holdings_by_name |-> DictSet(d.holdings_by_name, name, weight_pct) ]

\* The two mappings after the first n holdings of fund_holding_info; fund is
\* None when the ticker has none.
RECURSIVE YfPrimary(_, _)
YfPrimary(fund, n) ==
  IF fund = None \/ n = 0 THEN [holdings |-> <<>>, holdings_by_name |-> <<>>]
  ELSE YfHolding(YfPrimary(fund, n - 1), fund.holdings[n])

\* One iteration of the loop over the rows of get_holdings(): a row is
\* [Symbol, Weight]; a weight that is a text, not a number, makes float()
\* raise, which ends the loop with the holdings filed so far (stopped).
YfFrameRow(d, row) ==
  IF d.stopped \/ row.Symbol = "" THEN d
  ELSE IF "text" \in DOMAIN row.Weight THEN [d EXCEPT !.stopped = TRUE]
  ELSE IF FIsZero(row.Weight) THEN d
  ELSE LET weight_val == IF ~row.Weight.neg /\ FMagGeq(row.Weight, FromInt(1))
                         THEN row.Weight
                         ELSE FMul(row.Weight, FromInt(100))
       IN [d EXCEPT !.holdings = DictSet(d.holdings, row.Symbol, weight_val)]

\* The mappings after the first n rows of the frame of get_holdings().
RECURSIVE YfFrameRows(_, _, _)
YfFrameRows(d, frame, n) ==
  IF n = 0 THEN [holdings |-> d.holdings, holdings_by_name |-> d.holdings_by_name,
                 stopped |-> FALSE]
  ELSE YfFrameRow(YfFrameRows(d, frame, n - 1), frame[n])

\* The fallback on get_holdings(), taken when holdings is still empty: frame
\* is its rows, None, or raised when the call raises.
YfFallback(d, frame) ==
  IF Len(d.holdings) > 0 THEN d
  ELSE IF frame = None \/ "raised" \in DOMAIN frame THEN d
  ELSE LET r == YfFrameRows(d, frame.rows, Len(frame.rows))
       IN [holdings |-> r.holdings, holdings_by_name |-> r.holdings_by_name]

\* def parse_mags_from_yfinance(): info is ticker.info, or raised when the
\* package is missing or the request fails.
parse_mags_from_yfinance(info, fund, frame, today) ==
  IF "raised" \in DOMAIN info
  THEN [raised |-> IF info.raised = "ImportError"
                   THEN "yfinance not installed"
                   ELSE "Yahoo Finance error: " \o info.raised]
  ELSE LET d == YfFallback(YfPrimary(fund, IF fund = None THEN 0 ELSE Len(fund.holdings)),
                           frame)
       IN [ nav  |-> PyOr(info.navPrice, info.previousClose),
            date |-> last_weekday_str(today),
            holdings |-> d.holdings,
            holdings_by_name |-> d.holdings_by_name ]

\* ------------------------------------------------------------------------
\* parse_mags_exposures_http and parse_mags_exposures_selenium
\* ------------------------------------------------------------------------
\* A lookup of the name as published, neither trimmed nor upper-cased.
NameLookupExact(name) == DictGet(NAME_TO_TICKER_NORM, name, "")

\* NAME_TO_TICKER_NORM.get(name.strip().upper()), "" standing for None.
NameLookup(name) == DictGet(NAME_TO_TICKER_NORM, Upper(Strip(name)), "")

\* name and w after the first n cells of a row; a cell is its data-title and
\* its text, and "" stands for a name that is still None.
RECURSIVE TdScan(_, _)
TdScan(tds, n) ==
  IF n = 0 THEN [name |-> "", w |-> None]
  ELSE LET r       == TdScan(tds, n - 1)
           title   == Strip(tds[n].title)
           content == Strip(tds[n].text)
       IN IF Contains(title, "Name") /\ content # "" THEN [r EXCEPT !.name = content]
          ELSE IF Contains(title, "Weight") /\ content # ""
          THEN [r EXCEPT !.w = coerce_percent_to_float(content)]
          ELSE r

\* What "if name and (w is not None)" appends to pairs: the pair, or nothing.
PairIfAny(r) == IF r.name # "" /\ r.w # None THEN <<r>> ELSE <<>>

\* The pairs a row of cells appends: one, or none.
RowPair(tds) == PairIfAny(TdScan(tds, Len(tds)))

\* pairs after the first n rows of the holdings table.
RECURSIVE HttpPairs(_, _)
HttpPairs(rows, n) ==
  IF n = 0 THEN <<>> ELSE HttpPairs(rows, n - 1) \o RowPair(rows[n])

\* The pair a "name": "...", "weight": "..." match in the page appends.
MatchPair(m) ==
  PairIfAny([name |-> Strip(m.name), w |-> coerce_percent_to_float(m.weight)])

\* pairs after the first n matches of the page's JSON, read when the table
\* gave none.
RECURSIVE JsonPairs(_, _)
JsonPairs(matches, n) ==
  IF n = 0 THEN <<>> ELSE JsonPairs(matches, n - 1) \o MatchPair(matches[n])

\* A loop body that adds the weights of the names of one ticker.
FileUnderSummed(d, pair, t) ==
  [ holdings |-> IF t # ""
                 THEN DictSet(d.holdings, t,
                              FAdd(DictGet(d.holdings, t, FZero), pair.w))
                 ELSE d.holdings,
    holdings_by_name |-> DictSet(d.holdings_by_name, pair.name, pair.w) ]

\* The body of the loop over pairs, for the ticker t looked up.
FileUnder(d, pair, t) ==
  [ holdings |-> IF t # "" THEN DictSet(d.holdings, t, pair.w) ELSE d.holdings,
    holdings_by_name |-> DictSet(d.holdings_by_name, pair.name, pair.w) ]

\* One iteration of the loop over pairs.
FilePair(d, pair) == FileUnder(d, pair, NameLookup(pair.name))

\* The two mappings after the first n pairs.
RECURSIVE FilePairs(_, _)
FilePairs(pairs, n) ==
  IF n = 0 THEN [holdings |-> <<>>, holdings_by_name |-> <<>>]
  ELSE FilePair(FilePairs(pairs, n - 1), pairs[n])

\* The snapshot returned: the mappings d with the NAV and the date found.
PageSnapshot(d, nav, date) ==
  [ nav |-> nav, date |-> date,
    holdings |-> d.holdings, holdings_by_name |-> d.holdings_by_name ]

\* The pairs of the page: those of the table or, "if not pairs", those of the
\* matches in the markup.
PagePairs(table, matches) ==
  IF table = <<>> THEN JsonPairs(matches, Len(matches)) ELSE table

\* The loop over all the pairs.
FileAll(pairs) == FilePairs(pairs, Len(pairs))

\* a or b for texts, "" standing for None.
PyOrText(a, b) == IF a # "" THEN a ELSE b

\* def parse_mags_exposures_http(): status is "ok" or what raise_for_status
\* raises; rows are the rows of the holdings table, matches those of the
\* page's JSON; nav and date hold what _extract_nav_from_text and
\* _latest_date_on_page find in the page's text and in its markup.
parse_mags_exposures_http(status, rows, matches, nav, date, today) ==
  IF status # "ok" THEN [raised |-> status]
  ELSE PageSnapshot(FileAll(PagePairs(HttpPairs(rows, Len(rows)), matches)),
                    PyOr(nav.text, nav.html),
                    PyOrText(date.text, PyOrText(date.html, last_weekday_str(today))))

\* The pair a row appends in the Selenium loop: the one read by script, or,
\* when the script raised or read no name or weight, the one read from the
\* cells. A row is the script's result (or raised) and its cells.
SelRowPair(row) ==
  IF "raised" \in DOMAIN row.js THEN RowPair(row.tds)
  ELSE IF MatchPair(row.js) # <<>> THEN MatchPair(row.js)
  ELSE RowPair(row.tds)

\* pairs after the first n rows the driver found.
RECURSIVE SelPairs(_, _)
SelPairs(rows, n) ==
  IF n = 0 THEN <<>> ELSE SelPairs(rows, n - 1) \o SelRowPair(rows[n])

\* def parse_mags_exposures_selenium(): driver is "ok" or what starting
\* Chrome raises; wait.until raises after 45 seconds without a table row.
parse_mags_exposures_selenium(driver, rows, nav, date, today) ==
  IF driver # "ok" THEN [raised |-> driver]
  ELSE IF rows = <<>> THEN [raised |-> "TimeoutException"]
  ELSE PageSnapshot(FileAll(SelPairs(rows, Len(rows))), nav,
                    PyOrText(date, last_weekday_str(today)))

\* ------------------------------------------------------------------------
\* The what-if editor of mags.py
\* ------------------------------------------------------------------------
\* a > b
FGt(a, b) == LET d == FSub(a, b) IN d.m # 0 /\ ~d.neg

\* q.get("chg_pct") for q = quotes.get(t, {}).
QuoteChg(quotes, t) ==
  IF HasKey(quotes, t) THEN DictGet(quotes, t, None).chg_pct ELSE None

\* seed_bumps after the first n tickers of MAG7_TICKERS.
RECURSIVE SeedBumps(_, _, _)
SeedBumps(use_live_bumps, quotes, n) ==
  IF n = 0 \/ ~use_live_bumps THEN <<>>
  ELSE IF QuoteChg(quotes, MAG7_TICKERS[n]) # None
  THEN DictSet(SeedBumps(use_live_bumps, quotes, n - 1), MAG7_TICKERS[n],
               QuoteChg(quotes, MAG7_TICKERS[n]))
  ELSE SeedBumps(use_live_bumps, quotes, n - 1)

\* items with x put after its first p items.
InsertAt(items, x, p) ==
  SubSeq(items, 1, p) \o <<x>> \o SubSeq(items, p + 1, Len(items))

\* items with x put after the items that are not smaller than it.
InsertDesc(items, x) ==
  InsertAt(items, x, Cardinality({i \in 1..Len(items) : ~FGt(x.v, items[i].v)}))

\* sorted(d.items(), key=lambda x: x[1], reverse=True) over the first n items.
RECURSIVE SortDesc(_, _)
SortDesc(d, n) ==
  IF n = 0 THEN <<>> ELSE InsertDesc(SortDesc(d, n - 1), d[n])

\* holdings_items: the mapping shown, sorted.
HoldingsItems(shown) == SortDesc(shown, Len(shown))

\* The rows appended for the items: Ticker and Move % (Weight % is display
\* only).
RowsFor(items, seed_bumps) ==
  [ i \in 1..Len(items) |->
      [Ticker |-> items[i].k, Move |-> DictGet(seed_bumps, items[i].k, FZero)] ]

\* editor_rows, of data.holdings or, when it is empty, of holdings_by_name.
EditorRows(data, seed_bumps) ==
  RowsFor(HoldingsItems(IF Len(data.holdings) > 0 THEN data.holdings
                        ELSE data.holdings_by_name),
          seed_bumps)

\* An editor whose auto-filled value stays in a cell that has one.
EditedRowsLiveFirst(editor_rows, edits) ==
  [ i \in 1..Len(editor_rows) |->
      IF HasKey(edits, i) /\ FIsZero(editor_rows[i].Move)
      THEN [editor_rows[i] EXCEPT !.Move = DictGet(edits, i, None)]
      ELSE editor_rows[i] ]

\* edited_df: st.data_editor returns the rows with the cells the user edited
\* holding what the user entered.
EditedRows(editor_rows, edits) ==
  [ i \in 1..Len(editor_rows) |->
      IF HasKey(edits, i)
      THEN [editor_rows[i] EXCEPT !.Move = DictGet(edits, i, None)]
      ELSE editor_rows[i] ]

\* bumps_from_editor over the first n rows of edited_df.
RECURSIVE BumpsFromEditor(_, _)
BumpsFromEditor(edited, n) ==
  IF n = 0 THEN <<>>
  ELSE DictSet(BumpsFromEditor(edited, n - 1), edited[n].Ticker,
               IF Falsy(edited[n].Move) THEN FZero ELSE edited[n].Move)

\* bumps_from_editor over all the rows of edited_df.
AllBumpsFromEditor(edited) == BumpsFromEditor(edited, Len(edited))

\* The bumps the script passes to compute_nav_what_if in a run.
EditorBumps(data, quotes, use_live_bumps, edits) ==
  AllBumpsFromEditor(
    EditedRows(EditorRows(data, SeedBumps(use_live_bumps, quotes, Len(MAG7_TICKERS))),
               edits))

\* A script that takes the manual NAV only when the fetch found none.
ScriptDataManualIfAbsent(app, fetched, manual) ==
  IF app = "mags.py" /\ FGt(manual, FZero) /\ fetched.nav = None
  THEN [fetched EXCEPT !.nav = manual] ELSE fetched

\* data as the script has it at the editor: "if manual_nav > 0: data.nav =
\* manual_nav" in mags.py; mags2.py has no manual NAV.
ScriptData(app, fetched, manual) ==
  IF app = "mags.py" /\ FGt(manual, FZero)
  THEN [fetched EXCEPT !.nav = manual] ELSE fetched

\* proj_weights[ticker] = current_weight * (1 + move / 100.0), over the
\* first n items of the mapping shown.
RECURSIVE ProjRaw(_, _, _)
ProjRaw(shown, bumps_from_editor, n) ==
  IF n = 0 THEN <<>>
  ELSE DictSet(ProjRaw(shown, bumps_from_editor, n - 1), shown[n].k,
               FMul(shown[n].v,
                    FAdd(FromInt(1),
                         FDiv(DictGet(bumps_from_editor, shown[n].k, FZero),
                              FromInt(100)))))

\* {k: (v / total_proj * 100) for k, v in proj_weights.items()}, or the
\* ZeroDivisionError of the division.
ProjScaled(proj, total_proj) ==
  IF FIsZero(total_proj) THEN [raised |-> "ZeroDivisionError"]
  ELSE [proj_weights |->
          [ i \in 1..Len(proj) |->
              [k |-> proj[i].k,
               v |-> FMul(FDiv(proj[i].v, total_proj), FromInt(100))] ]]

\* The projected weights, normalized to 100, of the mapping raw.
ProjNormalized(raw) == ProjScaled(raw, SumValues(raw, Len(raw)))

\* The "Projected Weights" chart's weights.
ProjWeights(data, bumps_from_editor) ==
  ProjNormalized(ProjRaw(IF Len(data.holdings) > 0 THEN data.holdings
                         ELSE data.holdings_by_name,
                         bumps_from_editor,
                         IF Len(data.holdings) > 0 THEN Len(data.holdings)
                         ELSE Len(data.holdings_by_name)))

\* ------------------------------------------------------------------------
\* fetch_mag7_quotes
\* ------------------------------------------------------------------------
\* {'last': None, 'prev_close': None, 'chg': None, 'chg_pct': None}
AbsentQuote == [last |-> None, prev_close |-> None, chg |-> None, chg_pct |-> None]

\* info.get(key, default) for the dictionary info, a record of its keys.
InfoGet(info, key, default) == IF key \in DOMAIN info THEN info[key] ELSE default

\* info after `try: info = yt.info or {}` / `except Exception: info = {}`;
\* <<>> stands for {} and for a yt.info of None.
InfoRead(info) == IF "raised" \in DOMAIN info THEN <<>> ELSE info

\* An entry whose change is taken as 0 % for a previous close of 0.
QuoteOfZeroClose(last, prev) ==
  IF last # None /\ prev # None
  THEN [ last |-> last, prev_close |-> prev, chg |-> FSub(last, prev),
         chg_pct |-> IF FIsZero(prev) THEN FZero
                     ELSE FDiv(FMul(FromInt(100), FSub(last, prev)), prev) ]
  ELSE [ last |-> last, prev_close |-> prev, chg |-> None, chg_pct |-> None ]

\* The entry written for last and prev: chg and chg_pct are set
\* `if last is not None and prev not in (None, 0)`.
QuoteOf(last, prev) ==
  IF last # None /\ ~Falsy(prev)
  THEN [ last |-> last, prev_close |-> prev, chg |-> FSub(last, prev),
         chg_pct |-> FDiv(FMul(FromInt(100), FSub(last, prev)), prev) ]
  ELSE [ last |-> last, prev_close |-> prev, chg |-> None, chg_pct |-> None ]

\* The entry when fast_info gave last and prev: info is read only
\* `if last is None or prev is None`.
QuoteWith(last, prev, info) ==
  IF last = None \/ prev = None
  THEN QuoteOf(InfoGet(InfoRead(info), "regularMarketPrice", last),
               InfoGet(InfoRead(info), "regularMarketPreviousClose", prev))
  ELSE QuoteOf(last, prev)

\* One iteration of the loop over MAG7_TICKERS: answer is what yf.Ticker(t)
\* gives (fast_info's last_price and previous_close, None when missing, and
\* info), or raised when the ticker's try block raises.
QuoteEntry(answer) ==
  IF "raised" \in DOMAIN answer THEN AbsentQuote
  ELSE QuoteWith(answer.last_price, answer.previous_close, answer.info)

\* def fetch_mag7_quotes(): import_ok is whether yfinance imports, feed the
\* answer for each ticker of MAG7_TICKERS, in their order.
fetch_mag7_quotes(import_ok, feed) ==
  [ i \in 1..Len(MAG7_TICKERS) |->
      [ k |-> MAG7_TICKERS[i],
        v |-> IF import_ok THEN QuoteEntry(feed[i]) ELSE AbsentQuote ] ]

\* ------------------------------------------------------------------------
\* Fetch exposures: the module-level code of mags.py and mags2.py
\* ------------------------------------------------------------------------
\* s.startswith(prefix)
StartsWith(s, prefix) ==
  Len(s) >= Len(prefix) /\ SubSeq(s, 1, Len(prefix)) = prefix

\* The branch of the if/elif chain taken for the fetch mode: the source of its
\* try block and the source of the try block of its except clause ("" when
\* there is none), each with the label of its error message.
FetchPlan(app, fetch_mode) ==
  IF app = "mags.py" THEN
    IF StartsWith(fetch_mode, "StockAnalysis")
    THEN [ primary |-> "StockAnalysis", primary_label |-> "StockAnalysis error: ",
           fallback |-> "Yahoo", fallback_label |-> "Yahoo fallback error: " ]
    ELSE IF StartsWith(fetch_mode, "Yahoo")
    THEN [ primary |-> "Yahoo", primary_label |-> "Yahoo Finance error: ",
           fallback |-> "StockAnalysis",
           fallback_label |-> "StockAnalysis fallback error: " ]
    ELSE IF StartsWith(fetch_mode, "Selenium")
    THEN [ primary |-> "Selenium", primary_label |-> "Selenium error: ",
           fallback |-> "StockAnalysis",
           fallback_label |-> "StockAnalysis fallback error: " ]
    ELSE [ primary |-> "HTTP", primary_label |-> "HTTP error: ",
           fallback |-> "StockAnalysis",
           fallback_label |-> "StockAnalysis fallback error: " ]
  ELSE
    IF StartsWith(fetch_mode, "Selenium")
    THEN [ primary |-> "Selenium", primary_label |-> "Selenium error: ",
           fallback |-> "HTTP", fallback_label |-> "HTTP fallback error: " ]
    ELSE [ primary |-> "HTTP", primary_label |-> "HTTP error: ",
           fallback |-> "", fallback_label |-> "" ]

\* A script that tries its second source whatever the first one did.
AfterPrimaryAlways(plan, out) ==
  IF plan.fallback # "" THEN "except" ELSE "fetched"

\* Where the script goes after its first source: into the except clause when
\* the source raised, and into that clause's try block when it has one.
AfterPrimary(plan, out) ==
  IF "raised" \in DOMAIN out /\ plan.fallback # "" THEN "except" ELSE "fetched"

\* The check reduced to `if not data`.
CouldNotFetchNoneOnly(data) == data = None

\* if not data or (not data.holdings and not data.holdings_by_name)
CouldNotFetch(data) ==
  IF data = None THEN TRUE
  ELSE Len(data.holdings) = 0 /\ Len(data.holdings_by_name) = 0

\* ------------------------------------------------------------------------
\* Inputs
\* ------------------------------------------------------------------------
\* Weights of the mappings given to _normalize: -5, 0, 5, 8 and 14.28.
NormWeightVals ==
  {FromInt(-5), FromInt(0), FromInt(5), FromInt(8), FDec(1428, 2)}

\* The mappings given to _normalize: at most MaxWeights weights, keyed by the
\* tickers in their order.
NormInputs ==
  UNION { { [i \in 1..len |-> [k |-> MAG7_TICKERS[i], v |-> w[i]]] :
              w \in [1..len -> NormWeightVals] } : len \in 0..MaxWeights }

\* Snapshots given to compute_nav_what_if: each holding has the weight
\* WeightOf gives its key.
TickerKeys == {"NVDA", "AAPL"}

NameKeys == {"Nvidia", "Widget Co"}

WeightOf ==
  [key \in TickerKeys \cup NameKeys |->
     IF key \in {"NVDA", "Nvidia"} THEN FDec(1428, 2) ELSE FromInt(8)]

\* The dicts of at most n of the keys, each with the value valueOf gives it.
KeyedDicts(n, keys, valueOf) ==
  { [i \in 1..Len(ks) |-> [k |-> ks[i], v |-> valueOf[ks[i]]]] :
      ks \in { s \in UNION { [1..len -> keys] : len \in 0..n } :
                 \A i, j \in 1..Len(s) : s[i] = s[j] => i = j } }

NavVals == {None, FromInt(100)}

AssumeNavVals == {None, FromInt(50)}

\* A snapshot has holdings by ticker (with or without names beside them), or
\* holdings by name only, or none.
SnapshotInputs ==
  { [nav |-> nav, date |-> "Unknown", holdings |-> h, holdings_by_name |-> n] :
      nav \in NavVals,
      h \in KeyedDicts(MaxHoldings, TickerKeys, WeightOf),
      n \in KeyedDicts(MaxHoldings, NameKeys, WeightOf) }

\* Bump mappings: keys as a caller may write them, each with its own move.
BumpKeys == {"NVDA", " nvda ", "ALL", "Nvidia"}

BumpOf ==
  [key \in BumpKeys |->
     IF key = "NVDA" THEN FromInt(2)
     ELSE IF key = " nvda " THEN FromInt(-1)
     ELSE IF key = "ALL" THEN FromInt(1)
     ELSE FromInt(3)]

BumpInputs == KeyedDicts(MaxBumps, BumpKeys, BumpOf)

\* Rows of the StockAnalysis holdings table, each the texts of its cells
\* (No., Symbol, Name, % Weight).
SaRowVals ==
  { <<"1", "NVDA", "NVIDIA Corp", "8%">>,
    <<"2", "", "Nvidia Corp Swap", "8%">>,
    <<"3", "", "NVDA Equity Swap", "3%">>,
    <<"4", "AAPL", "Apple Inc", "5.5%">>,
    <<"5", "FGXXX", "Govt Obligs Fund", "40%">>,
    <<"6", "", "Nvidia Swap", "n/a">>,
    <<"7", "IBM", "IBM Corp", "2%">>,
    <<"8", "", "NVDA Swap", "-8%">>,
    <<"9", "MSFT", "Microsoft Corp", "0.00%">> }

SaPageInputs == UNION { [1..len -> SaRowVals] : len \in 0..MaxRows }

SaPriceVals == {None, [text |-> "67.5"]}

\* The days the clock may show: a Friday and the Sunday after it.
TodayVals == {6, 8}

\* ------------------------------------------------------------------------
\* State
\* ------------------------------------------------------------------------
VARIABLES
  pc,                 \* the step the run is at
  weights,            \* the argument of _normalize
  norm_out,           \* _normalize(weights)
  norm_out2,          \* _normalize(_normalize(weights))
  data,               \* the MAGSData given to compute_nav_what_if
  bumps,              \* its bumps argument
  assume_nav,         \* its assume_nav argument
  normalize_weights,  \* its normalize_weights argument
  result,             \* what compute_nav_what_if returned
  sa_rows,            \* the rows of the StockAnalysis holdings table
  sa_price,           \* the price element of the StockAnalysis main page
  today,              \* the day the clock shows
  sa_result,          \* what parse_mags_from_stockanalysis returned or raised
  bump_lines,         \* the entries of the bump text
  bump_sep,           \* the separator written between them
  bump_out,           \* what _parse_bumps_text returned
  bump_warnings,      \* what else it let its caller know
  yf_page,            \* what Yahoo Finance answers for the MAGS ticker
  yf_result,          \* what parse_mags_from_yfinance returned or raised
  http_page,          \* the Roundhill page as requests fetched it
  http_result,        \* what parse_mags_exposures_http returned or raised
  sel_page,           \* the Roundhill page as the Chrome driver shows it
  sel_result,         \* what parse_mags_exposures_selenium returned or raised
  quotes,             \* the cached result of fetch_mag7_quotes
  use_live_bumps,     \* the sidebar's "Auto-fill live moves" checkbox
  edits,              \* the Move % cells the user edited, by row
  manual_nav,         \* the sidebar's "Manual NAV (optional)" input
  proj_weights,       \* the projected weights the script charted, or raised
  quote_import,       \* whether yfinance can be imported
  quote_feed,         \* what Yahoo Finance answers for each MAG7 ticker
  app,                \* the script that runs: mags.py or mags2.py
  fetch_mode,         \* the sidebar's "Fetch method" radio
  outcomes,           \* what each source returns or raises in this run
  attempts,           \* the sources called so far in this run
  errors,             \* the script's errors list
  fetch_data          \* the script's data after the fetch

vars ==
  << pc, weights, norm_out, norm_out2, data, bumps, assume_nav,
     normalize_weights, result, sa_rows, sa_price, today, sa_result,
     bump_lines, bump_sep, bump_out, bump_warnings,
     yf_page, yf_result, http_page, http_result, sel_page, sel_result,
     quotes, use_live_bumps, edits, manual_nav, proj_weights,
     quote_import, quote_feed,
     app, fetch_mode, outcomes, attempts, errors, fetch_data >>

normVars == <<weights, norm_out, norm_out2>>

whatIfVars == <<data, bumps, assume_nav, normalize_weights, result>>

saVars == <<sa_rows, sa_price, today, sa_result>>

NormIdle == weights = <<>> /\ norm_out = <<>> /\ norm_out2 = <<>>

WhatIfIdle ==
  /\ data = NewMAGSData
  /\ bumps = <<>>
  /\ assume_nav = None
  /\ normalize_weights = FALSE
  /\ result = None

SaIdle == sa_rows = <<>> /\ sa_price = None /\ today = 6 /\ sa_result = None

bumpVars == <<bump_lines, bump_sep, bump_out, bump_warnings>>

BumpIdle ==
  bump_lines = <<>> /\ bump_sep = "" /\ bump_out = None /\ bump_warnings = <<>>

webVars == <<yf_page, yf_result, http_page, http_result, sel_page, sel_result>>

WebIdle ==
  /\ yf_page = None /\ yf_result = None
  /\ http_page = None /\ http_result = None
  /\ sel_page = None /\ sel_result = None

editorVars == <<quotes, use_live_bumps, edits, manual_nav, proj_weights>>

EditorIdle ==
  /\ quotes = <<>> /\ use_live_bumps = FALSE /\ edits = <<>>
  /\ manual_nav = FZero /\ proj_weights = None

quoteVars == <<quote_import, quote_feed>>

QuoteIdle == quote_import = TRUE /\ quote_feed = <<>>

fetchVars == <<app, fetch_mode, outcomes, attempts, errors, fetch_data>>

FetchIdle ==
  /\ app = "mags.py" /\ fetch_mode = "" /\ outcomes = <<>>
  /\ attempts = <<>> /\ errors = <<>> /\ fetch_data = None

\* The variables of the other calls and runs, and their values when unused.
extVars == <<bumpVars, webVars, editorVars, fetchVars, quoteVars>>

ExtIdle == BumpIdle /\ WebIdle /\ EditorIdle /\ FetchIdle /\ QuoteIdle

\* ------------------------------------------------------------------------
\* _normalize applied once and twice to a weight mapping
\* ------------------------------------------------------------------------
InitNorm ==
  /\ pc = "start"
  /\ weights \in NormInputs
  /\ norm_out = <<>>
  /\ norm_out2 = <<>>
  /\ WhatIfIdle
  /\ SaIdle
  /\ ExtIdle

Normalize ==
  /\ pc = "start"
  /\ norm_out' = normalize(weights)
  /\ pc' = "normalized"
  /\ UNCHANGED <<weights, norm_out2, whatIfVars, saVars, extVars>>

NormalizeAgain ==
  /\ pc = "normalized"
  /\ norm_out2' = normalize(norm_out)
  /\ pc' = "renormalized"
  /\ UNCHANGED <<weights, norm_out, whatIfVars, saVars, extVars>>

NextNorm == Normalize \/ NormalizeAgain

SpecNorm == InitNorm /\ [][NextNorm]_vars

\* ------------------------------------------------------------------------
\* compute_nav_what_if applied to a snapshot and a bump mapping
\* ------------------------------------------------------------------------
InitWhatIf ==
  /\ pc = "start"
  /\ data \in SnapshotInputs
  /\ bumps \in BumpInputs
  /\ assume_nav \in AssumeNavVals
  /\ normalize_weights \in BOOLEAN
  /\ result = None
  /\ NormIdle
  /\ SaIdle
  /\ ExtIdle

\* A call that normalizes the snapshot's own mapping, not a copy of it.
WhatIfInPlace ==
  /\ pc = "start"
  /\ result' = compute_nav_what_if(data, bumps, assume_nav, normalize_weights)
  /\ data' = IF Len(data.holdings) > 0
             THEN [data EXCEPT !.holdings = WorkingWeights(data, normalize_weights)]
             ELSE [data EXCEPT !.holdings_by_name = WorkingWeights(data, normalize_weights)]
  /\ pc' = "computed"
  /\ UNCHANGED <<bumps, assume_nav, normalize_weights, normVars, saVars, extVars>>

WhatIf ==
  /\ pc = "start"
  /\ result' = compute_nav_what_if(data, bumps, assume_nav, normalize_weights)
  /\ pc' = "computed"
  /\ UNCHANGED <<data, bumps, assume_nav, normalize_weights, normVars, saVars, extVars>>

NextWhatIf == WhatIf

SpecWhatIf == InitWhatIf /\ [][NextWhatIf]_vars

\* ------------------------------------------------------------------------
\* parse_mags_from_stockanalysis applied to a holdings page
\* ------------------------------------------------------------------------
InitSa ==
  /\ pc = "start"
  /\ sa_rows \in SaPageInputs
  /\ sa_price \in SaPriceVals
  /\ today \in TodayVals
  /\ sa_result = None
  /\ NormIdle
  /\ WhatIfIdle
  /\ ExtIdle

FetchStockAnalysis ==
  /\ pc = "start"
  /\ sa_result' = parse_mags_from_stockanalysis(sa_rows, sa_price, today)
  /\ pc' = "fetched"
  /\ UNCHANGED <<sa_rows, sa_price, today, normVars, whatIfVars, extVars>>

NextSa == FetchStockAnalysis

SpecSa == InitSa /\ [][NextSa]_vars

\* ------------------------------------------------------------------------
\* Properties of _normalize
\* ------------------------------------------------------------------------
\* |x| <= k * 2^e
AbsLeqPow2(x, k, e) ==
  \/ x.m = 0
  \/ x.e >= e /\ x.e - e <= 20 /\ x.m * Pow2(x.e - e) <= k
  \/ x.e < e /\ (e - x.e > 20 \/ x.m <= k * Pow2(e - x.e))

\* |a|
FAbs(a) == [a EXCEPT !.neg = FALSE]

\* The sum of the magnitudes of the first n values of a mapping.
RECURSIVE SumAbs(_, _)
SumAbs(d, n) == IF n = 0 THEN FZero ELSE FAdd(SumAbs(d, n - 1), FAbs(d[n].v))

\* The rounding tolerance of a sum of the values of mapping d: one unit in the
\* last place of the sum of their magnitudes for each rounding that enters the
\* sum (two for each value, one for each addition).
SumTolerance(d) == 3 * Len(d)

\* x and y differ by at most k units in the last place of the magnitude a.
Within(x, y, k, a) == AbsLeqPow2(FSub(x, y), k, a.e)

AllZero(d) == \A i \in 1..Len(d) : FIsZero(d[i].v)

TotalIsZero(d) == FIsZero(SumValues(d, Len(d)))

\* The values of d sum to 100 within the rounding tolerance.
SumsTo100(d) ==
  Within(SumValues(d, Len(d)), FromInt(100), SumTolerance(d), SumAbs(d, Len(d)))

\* C7 as stated: the values of _normalize(W) sum to 100 within rounding
\* tolerance for every weight mapping W that is not all-zero.
C7_SumForNotAllZero ==
  (pc # "start" /\ ~AllZero(weights)) => SumsTo100(norm_out)

\* C7, amended: the values of _normalize(W) sum to 100 within rounding
\* tolerance for every weight mapping W whose total is not zero.
C7_SumForNonZeroTotal ==
  (pc # "start" /\ ~TotalIsZero(weights)) => SumsTo100(norm_out)

\* A mapping of several weights of both signs and non-zero total was normalized.
C7_Witness ==
  /\ pc = "normalized"
  /\ Len(weights) >= 2
  /\ ~TotalIsZero(weights)
  /\ \E i, j \in 1..Len(weights) :
       /\ weights[i].v.neg /\ ~weights[j].v.neg
       /\ ~FIsZero(weights[i].v) /\ ~FIsZero(weights[j].v)
  /\ SumValues(norm_out, Len(norm_out)) # FromInt(100)

NoNegative(d) == \A i \in 1..Len(d) : FIsZero(d[i].v) \/ ~d[i].v.neg

\* Mappings a and b have the same keys in the same order and equal values.
SameDict(a, b) ==
  /\ Len(a) = Len(b)
  /\ \A i \in 1..Len(a) : a[i].k = b[i].k /\ FEq(a[i].v, b[i].v)

\* The rounding tolerance of normalizing a normalized mapping d, in units in
\* the last place of each value: two roundings of the value itself, and the
\* rounding error of the divisor, the sum of d.
IdemTolerance(d) == SumTolerance(d) + 2

\* Mappings a and b have the same keys and values equal within the tolerance.
CloseDict(a, b) ==
  /\ Len(a) = Len(b)
  /\ \A i \in 1..Len(a) :
       /\ a[i].k = b[i].k
       /\ Within(a[i].v, b[i].v, IdemTolerance(b), b[i].v)

\* C8 as stated: _normalize(_normalize(W)) equals _normalize(W) for every
\* weight mapping W that is not all-zero.
C8_IdempotentForNotAllZero ==
  (pc = "renormalized" /\ ~AllZero(weights)) => SameDict(norm_out2, norm_out)

\* C8, amended: for every weight mapping W without negative weights that is not
\* all-zero, _normalize(_normalize(W)) has the keys of _normalize(W) and each
\* value equal to its value within rounding tolerance.
C8_IdempotentWithinRounding ==
  (pc = "renormalized" /\ ~AllZero(weights) /\ NoNegative(weights))
    => CloseDict(norm_out2, norm_out)

\* A mapping of non-negative weights was normalized twice, and the second
\* result differs from the first in a last place.
C8_Witness ==
  /\ pc = "renormalized"
  /\ ~AllZero(weights)
  /\ NoNegative(weights)
  /\ Len(weights) >= 2
  /\ ~SameDict(norm_out2, norm_out)

\* C9 as stated: whenever the total of the weights is zero, _normalize returns
\* the raw input values.
C9_ZeroTotalIsNoOp ==
  (pc # "start" /\ TotalIsZero(weights)) => SameDict(norm_out, weights)

\* C9, amended: whenever the total of the weights is zero, _normalize divides
\* by 1 and returns every weight multiplied by 100, which is the input
\* unchanged when the mapping is empty or every weight is 0.
C9_ZeroTotalTimes100 ==
  (pc # "start" /\ TotalIsZero(weights)) =>
    /\ ~FIsZero(NormDivisor(weights))
    /\ Len(norm_out) = Len(weights)
    /\ \A i \in 1..Len(weights) :
         /\ norm_out[i].k = weights[i].k
         /\ FEq(norm_out[i].v, FMul(weights[i].v, FromInt(100)))
    /\ AllZero(weights) => SameDict(norm_out, weights)

\* A mapping of weights that cancel to a zero total was normalized.
C9_Witness ==
  /\ pc = "normalized"
  /\ Len(weights) >= 2
  /\ TotalIsZero(weights)
  /\ ~AllZero(weights)
  /\ ~SameDict(norm_out, weights)

\* ------------------------------------------------------------------------
\* Properties of compute_nav_what_if
\* ------------------------------------------------------------------------
\* The key a holding or bump key is matched by.
MatchKey(key) == Upper(Strip(key))

\* The entries of the caller's bump mapping whose key matches keyU.
BumpEntries(keyU) == {j \in 1..Len(bumps) : MatchKey(bumps[j].k) = keyU}

\* The move, as printed, of the last entry of the bump mapping matching keyU.
LastBump(keyU) ==
  LET j == CHOOSE x \in BumpEntries(keyU) : \A y \in BumpEntries(keyU) : y <= x
  IN Format(bumps[j].v, 2, TRUE)

\* The ticker the name table gives a holding key ("" for none).
TickerOf(key) ==
  IF \E i \in 1..Len(NAME_TO_TICKER) : MatchKey(NAME_TO_TICKER[i].k) = MatchKey(key)
  THEN NAME_TO_TICKER[CHOOSE i \in 1..Len(NAME_TO_TICKER) :
                        MatchKey(NAME_TO_TICKER[i].k) = MatchKey(key)].v
  ELSE ""

\* The mapping the call worked over and the move it resolved for each entry.
Worked == WorkingWeights(data, normalize_weights)

MoveOf(i) == ResolveMove(BumpsNorm(bumps), Worked[i].k)

\* The contributions in percent of the first n holdings, added in order.
RECURSIVE SumOfContribs(_)
SumOfContribs(n) ==
  IF n = 0 THEN FZero
  ELSE FAdd(SumOfContribs(n - 1),
            FDiv(FMul(Worked[n].v, MoveOf(n)), FromInt(100)))

\* C1: every row shows W*M as contribution in basis points and W*M/100 as
\* contribution in percent, the total return is the sum of the contributions
\* in percent over the holdings of the working mapping, and a known base NAV
\* is projected to baseNav * (1 + totalReturnPct / 100).
C1_ProjectionArithmetic ==
  pc = "computed" =>
    /\ Len(result.rows) = Len(Worked)
    /\ \A i \in 1..Len(Worked) :
         /\ result.rows[i].Contrib_bps
              = Format(FMul(Worked[i].v, MoveOf(i)), 2, FALSE)
         /\ result.rows[i].Contrib_pct
              = Format(FDiv(FMul(Worked[i].v, MoveOf(i)), FromInt(100)), 4, FALSE)
    /\ result.total_contrib_pct = SumOfContribs(Len(Worked))
    /\ result.base_nav # None =>
         result.new_nav
           = FMul(result.base_nav,
                  FAdd(FromInt(1), FDiv(result.total_contrib_pct, FromInt(100))))

\* Weight 14.28 with a move of +2 and a NAV of 100: 28.56, 0.2856 and 100.3.
C1_Witness ==
  /\ pc = "computed"
  /\ Len(result.rows) = 1
  /\ result.rows[1].Weight_pct = "14.28"
  /\ result.rows[1].Move_pct = "+2.00"
  /\ result.rows[1].Contrib_bps = "28.56"
  /\ result.rows[1].Contrib_pct = "0.2856"
  /\ data.nav = FromInt(100)
  /\ Format(result.new_nav, 1, FALSE) = "100.3"

\* C2 as stated: a holding whose key equals the key of a bump entry, both
\* trimmed and upper-cased, moves by that entry's value.
C2_AnyMatchingEntry ==
  pc = "computed" =>
    \A i \in 1..Len(result.rows) :
      \A j \in BumpEntries(MatchKey(result.rows[i].Holding)) :
        result.rows[i].Move_pct = Format(bumps[j].v, 2, TRUE)

\* C2, amended: a holding whose key equals the key of some bump entry, both
\* trimmed and upper-cased, moves by the value of the last such entry of the
\* bump mapping, whatever the "ALL" entry and the entries under its ticker.
C2_LastMatchingEntry ==
  pc = "computed" =>
    \A i \in 1..Len(result.rows) :
      BumpEntries(MatchKey(result.rows[i].Holding)) # {} =>
        result.rows[i].Move_pct = LastBump(MatchKey(result.rows[i].Holding))

\* A holding has a bump entry of its own beside an "ALL" entry of another
\* value, and moves by its own.
C2_Witness ==
  /\ pc = "computed"
  /\ BumpEntries("ALL") # {}
  /\ \E i \in 1..Len(result.rows) :
       /\ BumpEntries(MatchKey(result.rows[i].Holding)) # {}
       /\ result.rows[i].Move_pct # LastBump("ALL")

\* C3: a holding with no bump entry under its key and none under its ticker
\* moves by the value of the "ALL" entry, and by 0 when there is none.
C3_WildcardThenZero ==
  pc = "computed" =>
    \A i \in 1..Len(result.rows) :
      LET key == result.rows[i].Holding IN
      (BumpEntries(MatchKey(key)) = {} /\ BumpEntries(TickerOf(key)) = {}) =>
        result.rows[i].Move_pct
          = IF BumpEntries("ALL") # {} THEN LastBump("ALL") ELSE "+0.00"

\* A holding without an entry of its own or of its ticker moves by the "ALL"
\* entry.
C3_Witness ==
  /\ pc = "computed"
  /\ \E i \in 1..Len(result.rows) :
       LET key == result.rows[i].Holding IN
       /\ BumpEntries(MatchKey(key)) = {}
       /\ BumpEntries(TickerOf(key)) = {}
       /\ BumpEntries("ALL") # {}
       /\ result.rows[i].Move_pct = "+1.00"

\* C4: a holding keyed by a name that has no bump entry of its own, and whose
\* name the table resolves to a ticker with a bump entry, moves by the entry
\* of the ticker, "ALL" entry or not.
C4_TickerOfName ==
  pc = "computed" =>
    \A i \in 1..Len(result.rows) :
      LET key == result.rows[i].Holding IN
      (/\ BumpEntries(MatchKey(key)) = {}
       /\ TickerOf(key) # ""
       /\ BumpEntries(TickerOf(key)) # {}) =>
        result.rows[i].Move_pct = LastBump(TickerOf(key))

\* The holding "Nvidia" has no entry of its own and moves by the entry of
\* NVDA, not by the "ALL" entry.
C4_Witness ==
  /\ pc = "computed"
  /\ BumpEntries("ALL") # {}
  /\ \E i \in 1..Len(result.rows) :
       /\ result.rows[i].Holding = "Nvidia"
       /\ BumpEntries("NVIDIA") = {}
       /\ BumpEntries("NVDA") # {}
       /\ result.rows[i].Move_pct = LastBump("NVDA")
       /\ result.rows[i].Move_pct # LastBump("ALL")

\* C5: the projected NAV is absent exactly when the base NAV is, which is
\* exactly when the snapshot has no NAV and no assumed NAV was given.
C5_AbsentNavPropagates ==
  pc = "computed" =>
    /\ (result.new_nav = None) = (result.base_nav = None)
    /\ (result.base_nav = None) = (data.nav = None /\ assume_nav = None)

\* A snapshot without NAV, no assumed NAV, a non-zero total return: no
\* projected NAV.
C5_Witness ==
  /\ pc = "computed"
  /\ data.nav = None
  /\ assume_nav = None
  /\ ~FIsZero(result.total_contrib_pct)
  /\ result.new_nav = None

\* C6: the base NAV is the snapshot's NAV when it has one, and the assumed
\* NAV only when it has none.
C6_BaseNavPrecedence ==
  pc = "computed" =>
    /\ data.nav # None => result.base_nav = data.nav
    /\ data.nav = None => result.base_nav = assume_nav

\* A snapshot with a NAV and an assumed NAV of another value: the base NAV is
\* the snapshot's.
C6_Witness ==
  /\ pc = "computed"
  /\ data.nav # None
  /\ assume_nav # None
  /\ assume_nav # data.nav
  /\ result.base_nav = data.nav

\* ------------------------------------------------------------------------
\* Properties of parse_mags_from_stockanalysis
\* ------------------------------------------------------------------------
Raised(r) == "raised" \in DOMAIN r

\* What a row adds to mag7_holdings: the ticker t it resolves to and its
\* weight w; t is "" for a row that adds nothing.
RowAdd(cells) ==
  IF Len(cells) < 4 THEN [t |-> "", w |-> FZero]
  ELSE LET name   == Upper(cells[3])
           weight == coerce_percent_to_float(cells[4])
       IN IF IsCashLike(name) \/ weight = None THEN [t |-> "", w |-> FZero]
          ELSE IF FIsZero(weight) THEN [t |-> "", w |-> FZero]
          ELSE [t |-> MatchedTicker(cells[2], name), w |-> weight]

\* What each of the first n rows of the page adds.
RECURSIVE RowAdds(_)
RowAdds(n) ==
  IF n = 0 THEN <<>> ELSE Append(RowAdds(n - 1), RowAdd(sa_rows[n]))

\* The weights that the first n of adds give ticker t, added in order.
RECURSIVE SumOfRows(_, _, _)
SumOfRows(adds, t, n) ==
  IF n = 0 THEN FZero
  ELSE IF adds[n].t = t
  THEN LET sum == SumOfRows(adds, t, n - 1) IN FAdd(sum, adds[n].w)
  ELSE SumOfRows(adds, t, n - 1)

\* The rows among adds that resolve to ticker t.
RowsOf(adds, t) == {n \in 1..Len(adds) : adds[n].t = t}

\* C10: the weight of a ticker in holdings is the sum of the weights of all
\* the rows, direct holdings and swaps, that resolve to it.
C10_SwapAccumulation ==
  (pc = "fetched" /\ ~Raised(sa_result)) =>
    LET adds == RowAdds(Len(sa_rows)) IN
    /\ \A i \in 1..Len(sa_result.holdings) :
         sa_result.holdings[i].v
           = SumOfRows(adds, sa_result.holdings[i].k, Len(adds))
    /\ \A n \in 1..Len(adds) :
         adds[n].t # "" => HasKey(sa_result.holdings, adds[n].t)

\* "NVIDIA CORP SWAP" at 8% and "NVDA EQUITY SWAP" at 3% give NVDA 11.
C10_Witness ==
  /\ pc = "fetched"
  /\ ~Raised(sa_result)
  /\ Cardinality(RowsOf(RowAdds(Len(sa_rows)), "NVDA")) = 2
  /\ \E i, j \in 1..Len(sa_rows) :
       /\ Upper(sa_rows[i][3]) = "NVIDIA CORP SWAP" /\ sa_rows[i][4] = "8%"
       /\ Len(sa_rows[j]) >= 4
       /\ Upper(sa_rows[j][3]) = "NVDA EQUITY SWAP" /\ sa_rows[j][4] = "3%"
  /\ DictGet(sa_result.holdings, "NVDA", FZero) = FromInt(11)

\* ------------------------------------------------------------------------
\* C12: the working mapping
\* ------------------------------------------------------------------------
\* The mapping the claim says the call works over, and the other one.
ChosenMapping ==
  IF Len(data.holdings) > 0 THEN data.holdings ELSE data.holdings_by_name

OtherMapping ==
  IF Len(data.holdings) > 0 THEN data.holdings_by_name ELSE data.holdings

IsFloat(x) == DOMAIN x = {"neg", "m", "e"}

\* Holding key has no bump entry of its own, of its ticker or under "ALL".
Unresolved(key) ==
  /\ BumpEntries(MatchKey(key)) = {}
  /\ TickerOf(key) = "" \/ BumpEntries(TickerOf(key)) = {}
  /\ BumpEntries("ALL") = {}

\* C16: for every snapshot and every bump mapping the call returns rows, a
\* total return, a base NAV and a projected NAV (each NAV a number or
\* absent), and a holding with no bump moves by 0 and contributes nothing.
C16_NeverRaises ==
  pc = "computed" =>
    /\ DOMAIN result = {"rows", "total_contrib_pct", "base_nav", "new_nav"}
    /\ Len(result.rows) = Len(Worked)
    /\ IsFloat(result.total_contrib_pct)
    /\ result.base_nav = None \/ IsFloat(result.base_nav)
    /\ result.new_nav = None \/ IsFloat(result.new_nav)
    /\ \A i \in 1..Len(Worked) :
         Unresolved(Worked[i].k) =>
           /\ result.rows[i].Move_pct = "+0.00"
           /\ result.rows[i].Contrib_pct = "0.0000"

\* No NAV, no assumed NAV and no bump at all, for holdings kept by name only.
C16_Witness ==
  /\ pc = "computed"
  /\ data.nav = None
  /\ assume_nav = None
  /\ bumps = <<>>
  /\ Len(data.holdings) = 0
  /\ Len(result.rows) = 2
  /\ result.rows[1].Move_pct = "+0.00"
  /\ result.new_nav = None

\* ------------------------------------------------------------------------
\* C17: purity
\* ------------------------------------------------------------------------
\* C17: no step changes the snapshot (nav, date, holdings, holdings_by_name),
\* the bump mapping or the other arguments of the call, with or without
\* normalize_weights.
C17_Purity ==
  [][ /\ data' = data
      /\ bumps' = bumps
      /\ assume_nav' = assume_nav
      /\ normalize_weights' = normalize_weights ]_vars

\* A call with normalize_weights whose rows show other weights than the
\* snapshot's, which still holds the weights it had.
C17_Witness ==
  /\ pc = "computed"
  /\ normalize_weights
  /\ Len(data.holdings) = 2
  /\ Len(bumps) > 0
  /\ result.rows[1].Weight_pct # Format(data.holdings[1].v, 2, FALSE)
  /\ \A i \in 1..2 : data.holdings[i].v = WeightOf[data.holdings[i].k]

\* ------------------------------------------------------------------------
\* C18: the "Force equal weight (14.28% each)" option
\* ------------------------------------------------------------------------
\* C18: with the option on, every holding has the same weight in the
\* projection.
C18_EqualWeights ==
  (pc = "computed" /\ normalize_weights) =>
    \A i, j \in 1..Len(result.rows) :
      result.rows[i].Weight_pct = result.rows[j].Weight_pct

\* ------------------------------------------------------------------------
\* _parse_bumps_text applied to a bump text
\* ------------------------------------------------------------------------
\* Entries a user may write: well formed ones and ones the grammar rejects.
BumpLineVals ==
  {"NVDA:+2", "NVDA=2%", " AAPL : -1.5 % ", "all = 3", "NVDA 2", "ALL="}

BumpSepVals == {"\n", ",", "; \n"}

BumpTextInputs == UNION { [1..len -> BumpLineVals] : len \in 0..MaxLines }

\* The text made of the first n entries with the separator between them.
RECURSIVE BumpBlock(_, _, _)
BumpBlock(lines, sep, n) ==
  IF n = 0 THEN ""
  ELSE IF n = 1 THEN lines[1]
  ELSE BumpBlock(lines, sep, n - 1) \o sep \o lines[n]

InitBumps ==
  /\ pc = "start"
  /\ bump_lines \in BumpTextInputs
  /\ bump_sep \in BumpSepVals
  /\ bump_out = None
  /\ bump_warnings = <<>>
  /\ NormIdle
  /\ WhatIfIdle
  /\ SaIdle
  /\ WebIdle
  /\ EditorIdle
  /\ FetchIdle
  /\ QuoteIdle

ParseBumps ==
  /\ pc = "start"
  /\ bump_out' = parse_bumps_text(BumpBlock(bump_lines, bump_sep, Len(bump_lines)))
  /\ bump_warnings' = BumpWarnings(BumpBlock(bump_lines, bump_sep, Len(bump_lines)))
  /\ pc' = "parsed"
  /\ UNCHANGED <<bump_lines, bump_sep, normVars, whatIfVars, saVars,
                 webVars, editorVars, fetchVars, quoteVars>>

NextBumps == ParseBumps

SpecBumps == InitBumps /\ [][NextBumps]_vars

\* ------------------------------------------------------------------------
\* C13 and C14: bump text
\* ------------------------------------------------------------------------
\* What the grammar KEY [: or =] SIGNED_NUMBER [%] makes of each entry: its
\* key and number, or None for an entry it rejects.
GrammarOf ==
  [ line \in BumpLineVals |->
      IF line \in {"NVDA:+2", "NVDA=2%"} THEN [k |-> "NVDA", v |-> FromInt(2)]
      ELSE IF line = " AAPL : -1.5 % " THEN [k |-> "AAPL", v |-> FNeg(FDec(15, 1))]
      ELSE IF line = "all = 3" THEN [k |-> "all", v |-> FromInt(3)]
      ELSE None ]

WellFormed(n) == GrammarOf[bump_lines[n]] # None

Malformed(n) == GrammarOf[bump_lines[n]] = None

\* The last well-formed entry written for a key.
LastLineOf(key) ==
  CHOOSE n \in 1..Len(bump_lines) :
    /\ WellFormed(n) /\ GrammarOf[bump_lines[n]].k = key
    /\ \A m \in (n + 1)..Len(bump_lines) :
         Malformed(m) \/ GrammarOf[bump_lines[m]].k # key

\* C13: _parse_bumps_text returns exactly the entries that match the
\* grammar, by trimmed key ("NVDA:+2" and "NVDA=2%" both give NVDA 2.0); an
\* entry that does not match is left out, and does not keep the well-formed
\* entries before and after it from being returned.
C13_BumpTextParsing ==
  pc = "parsed" =>
    /\ \A n \in 1..Len(bump_lines) :
         WellFormed(n) =>
           /\ HasKey(bump_out, GrammarOf[bump_lines[n]].k)
           /\ DictGet(bump_out, GrammarOf[bump_lines[n]].k, None)
                = GrammarOf[bump_lines[LastLineOf(GrammarOf[bump_lines[n]].k)]].v
    /\ \A i \in 1..Len(bump_out) :
         \E n \in 1..Len(bump_lines) :
           WellFormed(n) /\ GrammarOf[bump_lines[n]].k = bump_out[i].k

\* "NVDA:+2", then the malformed "NVDA 2", then " AAPL : -1.5 % ".
C13_Witness ==
  /\ pc = "parsed"
  /\ bump_lines = <<"NVDA:+2", "NVDA 2", " AAPL : -1.5 % ">>
  /\ bump_out = << [k |-> "NVDA", v |-> FromInt(2)],
                   [k |-> "AAPL", v |-> FNeg(FDec(15, 1))] >>

\* The entries of the text that the grammar accepts, in their order.
WellFormedLines == SelectSeq(bump_lines, LAMBDA line : GrammarOf[line] # None)

\* C14 as stated: the caller of the parser can observe that a line was
\* rejected.
C14_MalformedIsReported ==
  (pc = "parsed" /\ \E n \in 1..Len(bump_lines) : Malformed(n)) =>
    bump_warnings # <<>>

\* C14, amended: a line that does not match the grammar is dropped
\* silently; the parser lets its caller know nothing but the mapping, which
\* is the one it returns for the text without the rejected lines.
C14_MalformedIsDroppedSilently ==
  (pc = "parsed" /\ \E n \in 1..Len(bump_lines) : Malformed(n)) =>
    /\ bump_warnings = <<>>
    /\ bump_out
         = parse_bumps_text(BumpBlock(WellFormedLines, bump_sep, Len(WellFormedLines)))

\* "NVDA 2" between two well-formed entries: the result is that of the two.
C14_Witness ==
  /\ pc = "parsed"
  /\ bump_lines = <<"NVDA=2%", "NVDA 2", "all = 3">>
  /\ bump_warnings = <<>>
  /\ Len(bump_out) = 2

\* ------------------------------------------------------------------------
\* The snapshot builders applied to what their sources answer
\* ------------------------------------------------------------------------
\* ticker.info: a failed import or request, or the two prices read from it.
YfInfoVals ==
  { [raised |-> "ImportError"], [raised |-> "HTTPError"],
    [navPrice |-> None, previousClose |-> None],
    [navPrice |-> FDec(675, 1), previousClose |-> FromInt(66)],
    [navPrice |-> FZero, previousClose |-> FromInt(66)] }

\* The entries of fund_holding_info["holdings"]: a named holding, one with
\* no holdingName, one with no symbol and one with no holdingPercent.
YfHoldingVals ==
  { [symbol |-> "NVDA", holdingPercent |-> FDec(8, 2), holdingName |-> "NVIDIA Corp"],
    [symbol |-> "AAPL", holdingPercent |-> FDec(5, 2)],
    [symbol |-> "", holdingPercent |-> FDec(40, 2), holdingName |-> "Cash"],
    [symbol |-> "MSFT", holdingPercent |-> None, holdingName |-> "Microsoft"] }

YfFundVals ==
  {None} \cup { [holdings |-> s] :
                   s \in UNION { [1..len -> YfHoldingVals] : len \in 0..MaxYfRows } }

\* The rows of get_holdings(): a fraction, a percentage and a weight that is
\* no number.
YfFrameRowVals ==
  { [Symbol |-> "NVDA", Weight |-> FDec(8, 2)],
    [Symbol |-> "AAPL", Weight |-> FDec(55, 1)],
    [Symbol |-> "MSFT", Weight |-> [text |-> "n/a"]] }

YfFrameVals ==
  {None, [raised |-> "AttributeError"]}
    \cup { [rows |-> s] :
              s \in UNION { [1..len -> YfFrameRowVals] : len \in 0..MaxYfRows } }

\* What Yahoo Finance answers; nothing more is asked once info has raised.
YfPageInputs ==
  { p \in [info : YfInfoVals, fund : YfFundVals, frame : YfFrameVals] :
      "raised" \in DOMAIN p.info => p.fund = None /\ p.frame = None }

\* The rows of the Roundhill holdings table, each a list of cells.
TdRowVals ==
  { << [title |-> "Name", text |-> "NVIDIA"], [title |-> "Weight", text |-> "8%"] >>,
    << [title |-> "Name", text |-> " Nvidia "], [title |-> "Weight", text |-> "5.5%"] >>,
    << [title |-> "Name", text |-> "NVIDIA CORP"], [title |-> "Weight", text |-> "3%"] >>,
    << [title |-> "Name", text |-> "Apple"], [title |-> "Weight", text |-> "n/a"] >>,
    << [title |-> "Ticker", text |-> "META"], [title |-> "Weight", text |-> "2%"] >> }

\* The "name"/"weight" matches in the page's markup.
JsonMatchVals ==
  { [name |-> " Tesla ", weight |-> "4%"], [name |-> "Widget Co", weight |-> "1%"] }

\* What _extract_nav_from_text finds in the page's text and in its markup.
PageNavVals ==
  { [text |-> None, html |-> None],
    [text |-> FDec(675, 1), html |-> FromInt(66)],
    [text |-> None, html |-> FromInt(66)] }

\* What _latest_date_on_page finds there, "" standing for None.
PageDateVals ==
  { [text |-> "", html |-> ""], [text |-> "", html |-> "11/4/2026"] }

\* The page as requests fetched it; nothing is read after a failed request.
HttpPageInputs ==
  { p \in [ status  : {"ok", "HTTPError"},
            rows    : UNION { [1..len -> TdRowVals] : len \in 0..MaxPairs },
            matches : UNION { [1..len -> JsonMatchVals] : len \in 0..1 },
            nav     : PageNavVals,
            date    : PageDateVals ] :
      p.status # "ok" => /\ p.rows = <<>> /\ p.matches = <<>>
                         /\ p.nav.html = None /\ p.date.html = "" }

\* The rows the driver finds: read by script, or, when the script raises or
\* reads nothing, cell by cell.
SelRowVals ==
  { [js |-> [name |-> "NVIDIA", weight |-> "8%"], tds |-> <<>>],
    [js |-> [name |-> " Nvidia ", weight |-> "5.5%"], tds |-> <<>>],
    [js |-> [raised |-> "JavascriptException"],
     tds |-> << [title |-> "Name", text |-> "Meta Platforms Inc"],
                [title |-> "Weight", text |-> "3%"] >>],
    [js |-> [name |-> "", weight |-> ""],
     tds |-> << [title |-> "Name", text |-> "apple"],
                [title |-> "Weight", text |-> "5.5%"] >>] }

\* The page as the driver shows it; there is no page when Chrome fails.
SelPageInputs ==
  { p \in [ driver : {"ok", "WebDriverException"},
            rows   : UNION { [1..len -> SelRowVals] : len \in 0..MaxPairs },
            nav    : {None, FDec(675, 1)},
            date   : {"", "11/4/2026"} ] :
      p.driver # "ok" => p.rows = <<>> /\ p.nav = None /\ p.date = "" }

InitYahoo ==
  /\ pc = "yahoo"
  /\ yf_page \in YfPageInputs
  /\ today \in TodayVals
  /\ yf_result = None
  /\ http_page = None /\ http_result = None
  /\ sel_page = None /\ sel_result = None
  /\ sa_rows = <<>> /\ sa_price = None /\ sa_result = None
  /\ NormIdle /\ WhatIfIdle /\ BumpIdle /\ EditorIdle /\ FetchIdle /\ QuoteIdle

InitHttp ==
  /\ pc = "http"
  /\ http_page \in HttpPageInputs
  /\ today \in TodayVals
  /\ http_result = None
  /\ yf_page = None /\ yf_result = None
  /\ sel_page = None /\ sel_result = None
  /\ sa_rows = <<>> /\ sa_price = None /\ sa_result = None
  /\ NormIdle /\ WhatIfIdle /\ BumpIdle /\ EditorIdle /\ FetchIdle /\ QuoteIdle

InitSelenium ==
  /\ pc = "selenium"
  /\ sel_page \in SelPageInputs
  /\ today \in TodayVals
  /\ sel_result = None
  /\ yf_page = None /\ yf_result = None
  /\ http_page = None /\ http_result = None
  /\ sa_rows = <<>> /\ sa_price = None /\ sa_result = None
  /\ NormIdle /\ WhatIfIdle /\ BumpIdle /\ EditorIdle /\ FetchIdle /\ QuoteIdle

FetchYahoo ==
  /\ pc = "yahoo"
  /\ yf_result' = parse_mags_from_yfinance(yf_page.info, yf_page.fund,
                                           yf_page.frame, today)
  /\ pc' = "fetched"
  /\ UNCHANGED <<yf_page, http_page, http_result, sel_page, sel_result,
                 sa_rows, sa_price, today, sa_result,
                 normVars, whatIfVars, bumpVars, editorVars, fetchVars, quoteVars>>

FetchHttp ==
  /\ pc = "http"
  /\ http_result' = parse_mags_exposures_http(http_page.status, http_page.rows,
                                              http_page.matches, http_page.nav,
                                              http_page.date, today)
  /\ pc' = "fetched"
  /\ UNCHANGED <<http_page, yf_page, yf_result, sel_page, sel_result,
                 sa_rows, sa_price, today, sa_result,
                 normVars, whatIfVars, bumpVars, editorVars, fetchVars, quoteVars>>

FetchSelenium ==
  /\ pc = "selenium"
  /\ sel_result' = parse_mags_exposures_selenium(sel_page.driver, sel_page.rows,
                                                 sel_page.nav, sel_page.date, today)
  /\ pc' = "fetched"
  /\ UNCHANGED <<sel_page, yf_page, yf_result, http_page, http_result,
                 sa_rows, sa_price, today, sa_result,
                 normVars, whatIfVars, bumpVars, editorVars, fetchVars, quoteVars>>

\* The two builders that read the Roundhill page.
InitPage == InitHttp \/ InitSelenium

NextPage == FetchHttp \/ FetchSelenium

SpecPage == InitPage /\ [][NextPage]_vars

\* Every builder, each on its own source.
InitBuilders == InitSa \/ InitYahoo \/ InitHttp \/ InitSelenium

NextBuilders == FetchStockAnalysis \/ FetchYahoo \/ FetchHttp \/ FetchSelenium

SpecBuilders == InitBuilders /\ [][NextBuilders]_vars

\* ------------------------------------------------------------------------
\* C11: every ticker entry of a snapshot has a name entry
\* ------------------------------------------------------------------------
\* The snapshots the builders have returned, each with its builder.
Returned ==
  { b \in { [builder |-> "stockanalysis", snap |-> sa_result],
            [builder |-> "yahoo", snap |-> yf_result],
            [builder |-> "http", snap |-> http_result],
            [builder |-> "selenium", snap |-> sel_result] } :
      b.snap # None /\ ~Raised(b.snap) }

\* Whether Yahoo Finance gave name for the holding with symbol t.
YfNames(name, t) ==
  /\ yf_page.fund # None
  /\ \E n \in 1..Len(yf_page.fund.holdings) :
       LET h == yf_page.fund.holdings[n] IN
         /\ h.symbol = t
         /\ name = IF "holdingName" \in DOMAIN h THEN h.holdingName ELSE h.symbol

\* Whether the name entry is the one the builder keeps for ticker t.
NamesTicker(builder, name, t) ==
  IF builder = "stockanalysis" THEN DictGet(SaNameMap, t, "") = name
  ELSE IF builder = "yahoo" THEN YfNames(name, t)
  ELSE DictGet(NAME_TO_TICKER_NORM, Upper(Strip(name)), "") = t

\* Every entry of holdings corresponds to an entry of holdings_by_name.
TickersHaveNames(b) ==
  \A i \in 1..Len(b.snap.holdings) :
    \E j \in 1..Len(b.snap.holdings_by_name) :
      NamesTicker(b.builder, b.snap.holdings_by_name[j].k, b.snap.holdings[i].k)

\* Whether the snapshot's holdings came from get_holdings().
FromGetHoldings(b) ==
  /\ b.builder = "yahoo"
  /\ Len(YfPrimary(yf_page.fund,
                   IF yf_page.fund = None THEN 0
                   ELSE Len(yf_page.fund.holdings)).holdings) = 0
  /\ Len(b.snap.holdings) > 0

\* C11: in every snapshot returned by any builder, the Yahoo Finance
\* get_holdings fallback included, every entry of holdings corresponds to an
\* entry of holdings_by_name, and holdings is never populated without
\* holdings_by_name.
C11_EveryBuilderKeepsNames ==
  \A b \in Returned :
    /\ TickersHaveNames(b)
    /\ Len(b.snap.holdings) > 0 => Len(b.snap.holdings_by_name) > 0

\* Outside that fallback the builders do keep a name for every ticker: every
\* snapshot whose holdings did not come from get_holdings() satisfies the
\* invariant, and one whose holdings did has an empty holdings_by_name.
NamesKeptButInYahooFallback ==
  \A b \in Returned :
    IF FromGetHoldings(b)
    THEN b.snap.holdings_by_name = <<>>
    ELSE /\ TickersHaveNames(b)
         /\ Len(b.snap.holdings) > 0 => Len(b.snap.holdings_by_name) > 0

\* ------------------------------------------------------------------------
\* C15: names resolve by their trimmed, upper-cased form, or not at all
\* ------------------------------------------------------------------------
\* The snapshots of the two builders that read the Roundhill page.
PageReturned == { b \in Returned : b.builder \in {"http", "selenium"} }

\* The key the fixed table is asked for.
NormalForm(name) == Upper(Strip(name))

\* The published names of the snapshot that are keys of the fixed table.
KnownNames(snap) ==
  { j \in 1..Len(snap.holdings_by_name) :
      HasKey(NAME_TO_TICKER_NORM, NormalForm(snap.holdings_by_name[j].k)) }

\* C15: a published name resolves to the ticker the fixed table has for its
\* trimmed, upper-cased form, so that its ticker is in holdings; any other
\* name, "NVIDIA CORP" among them, resolves to absent without the builder
\* raising, stays in holdings_by_name, and adds no entry to holdings: each
\* ticker of holdings is the ticker of a name the table knows.
C15_IdentityResolution ==
  /\ http_page # None /\ http_page.status = "ok" /\ pc = "fetched"
       => ~Raised(http_result)
  /\ sel_page # None /\ sel_page.driver = "ok" /\ sel_page.rows # <<>> /\ pc = "fetched"
       => ~Raised(sel_result)
  /\ \A b \in PageReturned :
       /\ \A j \in KnownNames(b.snap) :
            HasKey(b.snap.holdings,
                   DictGet(NAME_TO_TICKER_NORM,
                           NormalForm(b.snap.holdings_by_name[j].k), ""))
       /\ \A i \in 1..Len(b.snap.holdings) :
            \E j \in KnownNames(b.snap) :
              DictGet(NAME_TO_TICKER_NORM,
                      NormalForm(b.snap.holdings_by_name[j].k), "") = b.snap.holdings[i].k

\* A page with "Nvidia" and "NVIDIA CORP" has been read: the first is filed
\* under NVDA, the second by name only.
C15_Witness ==
  \E b \in PageReturned :
    /\ HasKey(b.snap.holdings_by_name, "NVIDIA CORP")
    /\ HasKey(b.snap.holdings_by_name, "Nvidia")
    /\ Len(b.snap.holdings) = 1
    /\ HasKey(b.snap.holdings, "NVDA")

\* ------------------------------------------------------------------------
\* The what-if editor: the script runs on load and after every edit
\* ------------------------------------------------------------------------
\* The cached quotes, as fetch_mag7_quotes returns them: NVDA up 1.5 % or
\* failed, AAPL down 2 % or failed, the other tickers failed.
QuoteInputs ==
  { fetch_mag7_quotes(TRUE,
      [ i \in 1..Len(MAG7_TICKERS) |->
          IF i = 1 THEN a ELSE IF i = 2 THEN b ELSE [raised |-> "HTTPError"] ]) :
      a \in { [raised |-> "HTTPError"],
              [last_price |-> FDec(1015, 1), previous_close |-> FromInt(100),
               info |-> <<>>] },
      b \in { [raised |-> "HTTPError"],
              [last_price |-> FromInt(98), previous_close |-> FromInt(100),
               info |-> <<>>] } }

\* What the user may enter in a Move % cell: 0, 2.5 or -100.
MoveVals == {FZero, FDec(25, 1), FromInt(-100)}

\* The snapshots the script shows, each with a NAV and with a name for each
\* ticker: it stops when both mappings are empty.
EditorSnapshots ==
  { d \in SnapshotInputs :
      /\ Len(d.holdings) > 0 \/ Len(d.holdings_by_name) > 0
      /\ Len(d.holdings) > 0 => Len(d.holdings_by_name) = Len(d.holdings)
      /\ d.nav # None }

InitEditor ==
  /\ pc = "load"
  /\ app = "mags.py"
  /\ fetch_data \in EditorSnapshots
  /\ quotes \in QuoteInputs
  /\ use_live_bumps \in BOOLEAN
  /\ normalize_weights = FALSE
  /\ manual_nav = FZero
  /\ edits = <<>>
  /\ proj_weights = None
  /\ data = NewMAGSData
  /\ bumps = <<>>
  /\ assume_nav = None
  /\ result = None
  /\ fetch_mode = "" /\ outcomes = <<>> /\ attempts = <<>> /\ errors = <<>>
  /\ NormIdle /\ SaIdle /\ BumpIdle /\ WebIdle /\ QuoteIdle

\* The script from the manual NAV override to the charts, with the editor
\* holding the edits e.
ScriptFromOverride(e) ==
  /\ data' = ScriptData(app, fetch_data, manual_nav)
  /\ bumps' = EditorBumps(data', quotes, use_live_bumps, e)
  /\ result' = compute_nav_what_if(data', bumps', None, normalize_weights)
  /\ proj_weights' = ProjWeights(data', bumps')

\* The run of the script when the page loads.
RunScript ==
  /\ pc = "load"
  /\ ScriptFromOverride(edits)
  /\ pc' = "shown"
  /\ UNCHANGED <<assume_nav, normalize_weights, quotes, use_live_bumps, edits,
                 manual_nav, fetchVars,
                 normVars, saVars, bumpVars, webVars, quoteVars>>

\* The user enters v in the Move % cell of row i, and the script runs again.
EditMove ==
  /\ pc = "shown"
  /\ \E i \in 1..Len(bumps), v \in MoveVals :
       /\ edits' = DictSet(edits, i, v)
       /\ ScriptFromOverride(edits')
  /\ UNCHANGED <<pc, assume_nav, normalize_weights, quotes, use_live_bumps,
                 manual_nav, fetchVars,
                 normVars, saVars, bumpVars, webVars, quoteVars>>

NextEditor == RunScript \/ EditMove

SpecEditor == InitEditor /\ [][NextEditor]_vars

\* ------------------------------------------------------------------------
\* C19: a manual move wins over the auto-filled live move
\* ------------------------------------------------------------------------
\* The holdings in the editor's order: by weight, largest first.
Shown ==
  LET d == IF Len(data.holdings) > 0 THEN data.holdings ELSE data.holdings_by_name
  IN SortDesc(d, Len(d))

\* The live move auto-filled for a holding, if there is one.
HasLive(key) ==
  /\ use_live_bumps
  /\ \E n \in 1..Len(MAG7_TICKERS) : MAG7_TICKERS[n] = key
  /\ \E j \in 1..Len(quotes) : quotes[j].k = key /\ quotes[j].v.chg_pct # None

LiveOf(key) == quotes[CHOOSE j \in 1..Len(quotes) : quotes[j].k = key].v.chg_pct

\* Whether the user edited the cell of row i, and what the user entered.
Edited(i) == \E j \in 1..Len(edits) : edits[j].k = i

ManualOf(i) == edits[CHOOSE j \in 1..Len(edits) : edits[j].k = i].v

\* The move passed for a holding.
Passed(key) == bumps[CHOOSE j \in 1..Len(bumps) : bumps[j].k = key].v

\* C19: in every run of the script the bumps passed to compute_nav_what_if
\* hold, for each holding shown, the user's manual value if the user edited
\* its cell, and otherwise the live move auto-filled for it, or 0 when there
\* is none.
C19_ManualOverLive ==
  pc = "shown" =>
    /\ Len(bumps) = Len(Shown)
    /\ \A i \in 1..Len(Shown) :
         LET key == Shown[i].k IN
           /\ \E j \in 1..Len(bumps) : bumps[j].k = key
           /\ FEq(Passed(key),
                  IF Edited(i) THEN ManualOf(i)
                  ELSE IF HasLive(key) THEN LiveOf(key) ELSE FZero)

\* The user has edited the cell of a holding that had a live move, to another
\* value, and has left alone another holding that has a live move.
C19_Witness ==
  /\ pc = "shown"
  /\ \E i, k \in 1..Len(Shown) :
       /\ Edited(i) /\ HasLive(Shown[i].k)
       /\ ~FEq(ManualOf(i), LiveOf(Shown[i].k))
       /\ ~Edited(k) /\ HasLive(Shown[k].k)
       /\ FEq(Passed(Shown[k].k), LiveOf(Shown[k].k))

\* ------------------------------------------------------------------------
\* A run of the script's fetch: the selected source, then its fallback
\* ------------------------------------------------------------------------
Sources == {"StockAnalysis", "Yahoo", "Selenium", "HTTP"}

\* The labels of the "Fetch method" radio of each script.
FetchModes ==
  [ k \in {"mags.py", "mags2.py"} |->
      IF k = "mags.py"
      THEN { "StockAnalysis.com (best)", "Yahoo Finance", "Selenium (local only)",
             "HTTP (Roundhill direct)" }
      ELSE { "Selenium (default)", "HTTP only" } ]

\* What each source may do in a run: raise, or return a snapshot, which for
\* Yahoo Finance, HTTP and Selenium may be empty.
SaOutcomes ==
  { parse_mags_from_stockanalysis(rows, None, 6) :
      rows \in {<<>>, << <<"1", "NVDA", "Nvidia Corp", "8%">> >>} }

YfOutcomes ==
  { parse_mags_from_yfinance(p.info, None, p.frame, 6) :
      p \in { [info |-> [raised |-> "HTTPError"], frame |-> None],
              [info |-> [navPrice |-> FromInt(66), previousClose |-> None],
               frame |-> None],
              [info |-> [navPrice |-> FromInt(66), previousClose |-> None],
               frame |-> [rows |-> << [Symbol |-> "NVDA", Weight |-> FDec(8, 2)] >>]] } }

HttpOutcomes ==
  { parse_mags_exposures_http(p.status, p.rows, <<>>,
                              [text |-> None, html |-> None],
                              [text |-> "", html |-> ""], 6) :
      p \in { [status |-> "HTTPError", rows |-> <<>>],
              [status |-> "ok", rows |-> <<>>],
              [status |-> "ok",
               rows |-> << << [title |-> "Name", text |-> "NVIDIA"],
                              [title |-> "Weight", text |-> "8%"] >> >>] } }

SelOutcomes ==
  { parse_mags_exposures_selenium("ok", rows, None, "", 6) :
      rows \in { <<>>,
                 << [js |-> [name |-> "", weight |-> ""], tds |-> <<>>] >>,
                 << [js |-> [name |-> "NVIDIA", weight |-> "8%"], tds |-> <<>>] >> } }

\* One outcome for each source.
FetchOutcomes ==
  { [ s \in Sources |-> IF s = "StockAnalysis" THEN a ELSE IF s = "Yahoo" THEN b
                        ELSE IF s = "HTTP" THEN c ELSE d ] :
      a \in SaOutcomes, b \in YfOutcomes, c \in HttpOutcomes, d \in SelOutcomes }

InitFetch ==
  /\ pc = "fetch"
  /\ app \in {"mags.py", "mags2.py"}
  /\ fetch_mode \in FetchModes[app]
  /\ outcomes \in FetchOutcomes
  /\ attempts = <<>>
  /\ errors = <<>>
  /\ fetch_data = None
  /\ NormIdle /\ WhatIfIdle /\ SaIdle /\ BumpIdle /\ WebIdle /\ EditorIdle
  /\ QuoteIdle

\* The try block of the branch taken, and its except clause's first line.
AttemptPrimary ==
  /\ pc = "fetch"
  /\ LET plan == FetchPlan(app, fetch_mode)
         out  == outcomes[plan.primary]
     IN /\ attempts' = Append(attempts, plan.primary)
        /\ IF "raised" \in DOMAIN out
           THEN /\ errors' = Append(errors, plan.primary_label \o out.raised)
                /\ fetch_data' = fetch_data
           ELSE /\ errors' = errors
                /\ fetch_data' = out
        /\ pc' = AfterPrimary(plan, out)
  /\ UNCHANGED <<app, fetch_mode, outcomes,
                 normVars, whatIfVars, saVars, bumpVars, webVars, editorVars,
                 quoteVars>>

\* The try block inside the except clause.
AttemptFallback ==
  /\ pc = "except"
  /\ LET plan == FetchPlan(app, fetch_mode)
         out  == outcomes[plan.fallback]
     IN /\ attempts' = Append(attempts, plan.fallback)
        /\ IF "raised" \in DOMAIN out
           THEN /\ errors' = Append(errors, plan.fallback_label \o out.raised)
                /\ fetch_data' = fetch_data
           ELSE /\ errors' = errors
                /\ fetch_data' = out
  /\ pc' = "fetched"
  /\ UNCHANGED <<app, fetch_mode, outcomes,
                 normVars, whatIfVars, saVars, bumpVars, webVars, editorVars,
                 quoteVars>>

\* The check after the fetch: st.stop() with "Could not fetch MAGS data.", or
\* on to the rest of the script.
CheckData ==
  /\ pc = "fetched"
  /\ pc' = IF CouldNotFetch(fetch_data) THEN "stopped" ELSE "load"
  /\ UNCHANGED <<fetchVars,
                 normVars, whatIfVars, saVars, bumpVars, webVars, editorVars,
                 quoteVars>>

NextFetch == AttemptPrimary \/ AttemptFallback \/ CheckData \/ RunScript

SpecFetch == InitFetch /\ [][NextFetch]_vars

\* ------------------------------------------------------------------------
\* C20: the fallback source is tried if and only if the primary raised
\* ------------------------------------------------------------------------
\* The order of sources of each script and mode, "" for no fallback.
Order ==
  IF app = "mags.py" THEN
    IF fetch_mode = "StockAnalysis.com (best)" THEN <<"StockAnalysis", "Yahoo">>
    ELSE IF fetch_mode = "Yahoo Finance" THEN <<"Yahoo", "StockAnalysis">>
    ELSE IF fetch_mode = "Selenium (local only)" THEN <<"Selenium", "StockAnalysis">>
    ELSE <<"HTTP", "StockAnalysis">>
  ELSE IF fetch_mode = "Selenium (default)" THEN <<"Selenium", "HTTP">>
  ELSE <<"HTTP", "">>

Failed(source) == Raised(outcomes[source])

\* The attempts that raised, in attempt order.
FailedAttempts == SelectSeq(attempts, Failed)

\* Whether text ends with suffix.
EndsWith(text, suffix) ==
  /\ Len(text) >= Len(suffix)
  /\ SubSeq(text, Len(text) - Len(suffix) + 1, Len(text)) = suffix

FetchOver == pc \in {"fetched", "stopped", "load", "shown"}

\* C20: the primary source of the selected mode is attempted first; the
\* fallback source is attempted if and only if the primary raised (and the
\* mode has one); at most two sources are attempted; errors holds one message
\* per failed attempt, in attempt order; and when the fetch is over data is
\* unset exactly when every attempted source raised.
C20_FetchFallbackOrdering ==
  /\ Len(attempts) <= 2
  /\ Len(attempts) >= 1 => attempts[1] = Order[1]
  /\ Len(attempts) = 2 => attempts[2] = Order[2] /\ Failed(Order[1])
  /\ FetchOver => Len(attempts) >= 1
  /\ FetchOver /\ Failed(Order[1]) /\ Order[2] # "" => Len(attempts) = 2
  /\ Len(errors) = Len(FailedAttempts)
  /\ \A i \in 1..Len(errors) :
       /\ StartsWith(errors[i], FailedAttempts[i])
       /\ EndsWith(errors[i], outcomes[FailedAttempts[i]].raised)
  /\ FetchOver =>
       (fetch_data = None <=> \A i \in 1..Len(attempts) : Failed(attempts[i]))
  /\ ~FetchOver => fetch_data = None

\* A run whose primary source raised and whose fallback returned a snapshot.
C20_Witness ==
  /\ FetchOver
  /\ Len(attempts) = 2
  /\ Len(errors) = 1
  /\ fetch_data # None

\* ------------------------------------------------------------------------
\* The script of mags.py run with a manual NAV
\* ------------------------------------------------------------------------
\* What the sidebar's number input may hold: 0, its default, or 70.5.
ManualNavVals == {FZero, FDec(705, 1)}

\* The snapshots the script gets past its check with, with or without a NAV.
ShownSnapshots ==
  { d \in SnapshotInputs :
      /\ Len(d.holdings) > 0 \/ Len(d.holdings_by_name) > 0
      /\ Len(d.holdings) > 0 => Len(d.holdings_by_name) = Len(d.holdings) }

InitManualNav ==
  /\ pc = "load"
  /\ app = "mags.py"
  /\ fetch_data \in ShownSnapshots
  /\ manual_nav \in ManualNavVals
  /\ quotes \in QuoteInputs
  /\ use_live_bumps \in BOOLEAN
  /\ normalize_weights \in BOOLEAN
  /\ edits = <<>>
  /\ proj_weights = None
  /\ data = NewMAGSData
  /\ bumps = <<>>
  /\ assume_nav = None
  /\ result = None
  /\ fetch_mode = "" /\ outcomes = <<>> /\ attempts = <<>> /\ errors = <<>>
  /\ NormIdle /\ SaIdle /\ BumpIdle /\ WebIdle /\ QuoteIdle

NextManualNav == RunScript

SpecManualNav == InitManualNav /\ [][NextManualNav]_vars

\* ------------------------------------------------------------------------
\* C21: the manual NAV, when set, is the base NAV
\* ------------------------------------------------------------------------
ManualNavSet == manual_nav.m # 0 /\ ~manual_nav.neg

\* C21: in mags.py, with the manual NAV left at 0 the base NAV of the
\* projection is the NAV of the fetched snapshot, absent when that is absent;
\* with a manual NAV greater than 0 the base NAV is the manual value, whether
\* or not the fetched snapshot has a NAV.
C21_ManualNavOverride ==
  pc = "shown" =>
    /\ ~ManualNavSet => result.base_nav = fetch_data.nav
    /\ ManualNavSet => result.base_nav = manual_nav
    /\ result.new_nav = None <=> result.base_nav = None

\* The script has run with a manual NAV over a snapshot that has a NAV of its
\* own, another one.
C21_Witness ==
  /\ pc = "shown"
  /\ ManualNavSet
  /\ fetch_data.nav # None
  /\ fetch_data.nav # manual_nav
  /\ result.base_nav = manual_nav

\* ------------------------------------------------------------------------
\* C22: the projected weights
\* ------------------------------------------------------------------------
\* Every holding shown has been moved by -100.
AllMovedToZero == \A j \in 1..Len(bumps) : FEq(bumps[j].v, FromInt(-100))

\* C22: for every snapshot shown and every set of editor moves, -100
\* included, the projected weights are computed without error and sum to 100.
C22_ProjectedWeightsSumTo100 ==
  pc = "shown" => ~Raised(proj_weights) /\ SumsTo100(proj_weights.proj_weights)

\* What does hold: the division raises exactly when the projected weights
\* total 0, as they do when every holding is moved by -100, and the weights
\* sum to 100 whenever it does not raise.
ProjectedWeightsUnlessZeroTotal ==
  pc = "shown" =>
    /\ AllMovedToZero <=> Raised(proj_weights)
    /\ ~Raised(proj_weights) => SumsTo100(proj_weights.proj_weights)

\* ------------------------------------------------------------------------
\* C23: a primary source that returns an empty snapshot
\* ------------------------------------------------------------------------
\* Snapshot d has no holding under either map.
BothMapsEmpty(d) == Len(d.holdings) = 0 /\ Len(d.holdings_by_name) = 0

\* The primary source of the run returned, and returned an empty snapshot.
PrimaryReturnedEmpty ==
  IF Failed(Order[1]) THEN FALSE ELSE BothMapsEmpty(outcomes[Order[1]])

\* C23: a primary source that returns without raising but with both holdings
\* maps empty does not trigger the fallback: the run ends at "Could not fetch
\* MAGS data." and stops, the fallback is not attempted and
\* compute_nav_what_if is not called; compute_nav_what_if is only ever called
\* with a snapshot that has a non-empty holdings map.
C23_EmptySnapshotStopsTheRun ==
  /\ (FetchOver /\ PrimaryReturnedEmpty) =>
        /\ attempts = <<Order[1]>>
        /\ errors = <<>>
        /\ fetch_data = outcomes[Order[1]]
        /\ pc \in {"fetched", "stopped"}
        /\ result = None
  /\ pc = "stopped" => result = None /\ CouldNotFetch(fetch_data)
  /\ pc \in {"load", "shown"} => ~BothMapsEmpty(fetch_data)
  /\ result # None => pc = "shown" /\ ~BothMapsEmpty(data)

C23_Witness ==
  /\ pc = "stopped"
  /\ PrimaryReturnedEmpty
  /\ Order[2] # ""
  /\ ~Failed(Order[2])
  /\ ~BothMapsEmpty(outcomes[Order[2]])

\* Some run does reach the call of compute_nav_what_if.
C23_Computed == pc = "shown" /\ result # None

\* ------------------------------------------------------------------------
\* C25: several published names of one ticker
\* ------------------------------------------------------------------------
\* The (name, weight) pairs read from the page, in page order.
PairsRead ==
  IF http_page # None
  THEN PagePairs(HttpPairs(http_page.rows, Len(http_page.rows)), http_page.matches)
  ELSE SelPairs(sel_page.rows, Len(sel_page.rows))

\* What the builder that read the page returned.
PageResult == IF http_page # None THEN http_result ELSE sel_result

\* The positions of the pairs whose name resolves to ticker t.
PairsOfTicker(t) == { j \in 1..Len(PairsRead) : NameLookup(PairsRead[j].name) = t }

\* The positions of the pairs published under name.
PairsOfName(name) == { j \in 1..Len(PairsRead) : PairsRead[j].name = name }

\* The last position of the non-empty set S of positions.
LastOf(S) == CHOOSE j \in S : \A k \in S : k <= j

\* C25: in the snapshot of the HTTP or Selenium builder the weight of a
\* ticker is the weight of the last name, in page order, that resolves to it
\* (overwritten, not summed), while holdings_by_name keeps every published
\* name with its own weight.
C25_LastNameWinsTicker ==
  (pc = "fetched" /\ ~Raised(PageResult)) =>
    /\ \A i \in 1..Len(PageResult.holdings) :
         /\ PairsOfTicker(PageResult.holdings[i].k) # {}
         /\ PageResult.holdings[i].v =
              PairsRead[LastOf(PairsOfTicker(PageResult.holdings[i].k))].w
    /\ \A j \in 1..Len(PairsRead) :
         /\ HasKey(PageResult.holdings_by_name, PairsRead[j].name)
         /\ DictGet(PageResult.holdings_by_name, PairsRead[j].name, None) =
              PairsRead[LastOf(PairsOfName(PairsRead[j].name))].w
         /\ NameLookup(PairsRead[j].name) # "" =>
              HasKey(PageResult.holdings, NameLookup(PairsRead[j].name))
    /\ \A i \in 1..Len(PageResult.holdings_by_name) :
         PairsOfName(PageResult.holdings_by_name[i].k) # {}

\* "NVIDIA" at 8% and then "Nvidia" at 5.5%: NVDA holds 5.5, each name its own.
C25_Witness ==
  /\ pc = "fetched"
  /\ http_page # None
  /\ ~Raised(http_result)
  /\ Len(PairsRead) = 2
  /\ PairsRead[1].name = "NVIDIA" /\ PairsRead[2].name = "Nvidia"
  /\ http_result.holdings = << [k |-> "NVDA", v |-> FDec(55, 1)] >>
  /\ http_result.holdings_by_name =
       << [k |-> "NVIDIA", v |-> FromInt(8)], [k |-> "Nvidia", v |-> FDec(55, 1)] >>

\* ------------------------------------------------------------------------
\* The what-if computed on a snapshot read from the Roundhill page
\* ------------------------------------------------------------------------
\* The bumps asked for: a wildcard, entries for names the table does not know,
\* and a ticker with a wildcard.
PageBumpVals ==
  { << [k |-> "ALL", v |-> FromInt(3)] >>,
    << [k |-> "NVIDIA CORP", v |-> FromInt(5)],
       [k |-> "Meta Platforms Inc", v |-> FromInt(5)] >>,
    << [k |-> "NVDA", v |-> FromInt(2)], [k |-> "all", v |-> FromInt(3)] >> }

\* compute_nav_what_if called with the snapshot the builder returned.
WhatIfOnPage ==
  /\ pc = "fetched"
  /\ ~Raised(PageResult)
  /\ data' = PageResult
  /\ bumps' \in PageBumpVals
  /\ normalize_weights' \in BOOLEAN
  /\ result' = compute_nav_what_if(data', bumps', assume_nav, normalize_weights')
  /\ pc' = "computed"
  /\ UNCHANGED <<assume_nav, normVars, saVars, bumpVars, webVars, editorVars,
                 fetchVars, quoteVars>>

NextPageWhatIf == FetchHttp \/ FetchSelenium \/ WhatIfOnPage

SpecPageWhatIf == InitPage /\ [][NextPageWhatIf]_vars

\* ------------------------------------------------------------------------
\* C24: partial resolution
\* ------------------------------------------------------------------------
\* The published names of the snapshot that resolved to no ticker.
UnresolvedNames(snap) ==
  { snap.holdings_by_name[j].k : j \in 1..Len(snap.holdings_by_name) }
    \ { snap.holdings_by_name[j].k : j \in KnownNames(snap) }

\* Some name of the snapshot resolved and some other did not.
PartlyResolved(snap) == Len(snap.holdings) > 0 /\ UnresolvedNames(snap) # {}

\* The snapshot without its published names.
TickersOnly(snap) == [snap EXCEPT !.holdings_by_name = <<>>]

\* A bump entry is keyed by name n, or is the wildcard.
BumpReaches(n) ==
  \E j \in 1..Len(bumps) : Upper(Strip(bumps[j].k)) \in {"ALL", Upper(Strip(n))}

\* C24: for a snapshot of the HTTP/Selenium path with at least one name that
\* resolved to a ticker and other names that did not, compute_nav_what_if
\* uses only the ticker map: the unresolved names get no row and add nothing
\* to the total, whatever the bumps say of them or of "ALL".
C24_UnresolvedNamesAreLeftOut ==
  (pc = "computed" /\ PartlyResolved(data)) =>
    /\ result = compute_nav_what_if(TickersOnly(data), bumps, assume_nav,
                                    normalize_weights)
    /\ Len(result.rows) = Len(data.holdings)
    /\ \A i \in 1..Len(result.rows) :
         /\ result.rows[i].Holding = data.holdings[i].k
         /\ result.rows[i].Holding \notin UnresolvedNames(data)

\* "NVIDIA" resolved, "NVIDIA CORP" did not and has a bump of its own.
C24_Witness ==
  /\ pc = "computed"
  /\ PartlyResolved(data)
  /\ "NVIDIA CORP" \in UnresolvedNames(data)
  /\ BumpReaches("NVIDIA CORP")
  /\ ~BumpReaches("NVDA")
  /\ Len(result.rows) = 1
  /\ FIsZero(result.total_contrib_pct)

\* The same with the wildcard: only the ticker's row moves.
C24_WitnessAll ==
  /\ pc = "computed"
  /\ PartlyResolved(data)
  /\ bumps = << [k |-> "ALL", v |-> FromInt(3)] >>
  /\ Len(result.rows) = 1
  /\ ~FIsZero(result.total_contrib_pct)

\* ------------------------------------------------------------------------
\* C26: the snapshot of parse_mags_from_stockanalysis
\* ------------------------------------------------------------------------
\* The seven tickers and the names the builder files them under.
Mag7Set == {"NVDA", "GOOGL", "AMZN", "TSLA", "AAPL", "MSFT", "META"}

\* A row that adds a is left out: too short, cash-like, without a weight or
\* with a zero one, or of no MAG7 ticker.
LeftOut(a) == a.t = ""

\* The rows of the page that are not left out, in page order, adds being what
\* each row adds.
RECURSIVE KeptRows(_, _)
KeptRows(adds, n) ==
  IF n = 0 THEN <<>>
  ELSE IF LeftOut(adds[n]) THEN KeptRows(adds, n - 1)
  ELSE Append(KeptRows(adds, n - 1), sa_rows[n])

\* holdings is keyed by MAG7 tickers, each with a row of its own and the sum
\* of its rows as weight, and holdings_by_name has one name for each ticker
\* with the same weight.
MapsOf(snap, adds) ==
  /\ Len(snap.holdings) > 0
  /\ Len(snap.holdings_by_name) = Len(snap.holdings)
  /\ \A i \in 1..Len(snap.holdings) :
       /\ snap.holdings[i].k \in Mag7Set
       /\ \E j \in 1..Len(snap.holdings_by_name) :
            /\ snap.holdings_by_name[j].v = snap.holdings[i].v
            /\ NameLookup(snap.holdings_by_name[j].k) = snap.holdings[i].k
       /\ RowsOf(adds, snap.holdings[i].k) # {}
       /\ snap.holdings[i].v = SumOfRows(adds, snap.holdings[i].k, Len(adds))
  /\ \A j \in 1..Len(snap.holdings_by_name) :
       HasKey(snap.holdings, NameLookup(snap.holdings_by_name[j].k))

\* The rows left out add to neither map: the page without them gives the
\* same snapshot.
LeftOutRowsAddNothing(adds) ==
  sa_result = parse_mags_from_stockanalysis(KeptRows(adds, Len(adds)), sa_price, today)

\* Each row that is not left out adds a non-zero weight to one ticker of
\* holdings.
KeptRowsAddToOneTicker(snap, adds) ==
  \A n \in 1..Len(adds) :
    ~LeftOut(adds[n]) =>
      /\ ~FIsZero(adds[n].w)
      /\ Cardinality({ i \in 1..Len(snap.holdings) :
                         snap.holdings[i].k = adds[n].t }) = 1

\* C26 as stated: parse_mags_from_stockanalysis raises or returns a snapshot
\* with a non-empty holdings keyed by MAG7 tickers, every weight non-zero,
\* and one holdings_by_name entry per ticker with the same weight; cash-like
\* rows, rows with a zero or unparseable weight and rows of no ticker add to
\* neither map, and each other row adds its weight to exactly one ticker.
C26_EveryTickerWeightNonZero ==
  (pc = "fetched" /\ ~Raised(sa_result)) =>
    LET adds == RowAdds(Len(sa_rows)) IN
    /\ MapsOf(sa_result, adds)
    /\ LeftOutRowsAddNothing(adds)
    /\ KeptRowsAddToOneTicker(sa_result, adds)
    /\ \A i \in 1..Len(sa_result.holdings) : ~FIsZero(sa_result.holdings[i].v)

\* C26, amended: the same, with every weight the sum of the non-zero weights
\* of the rows of its ticker, of which there is at least one; the sum is 0
\* when those weights cancel.  The builder raises exactly when every row is
\* left out.
C26_TickerWeightsAreRowSums ==
  pc = "fetched" =>
    LET adds == RowAdds(Len(sa_rows)) IN
    /\ Raised(sa_result) <=> \A n \in 1..Len(adds) : LeftOut(adds[n])
    /\ ~Raised(sa_result) =>
         /\ MapsOf(sa_result, adds)
         /\ LeftOutRowsAddNothing(adds)
         /\ KeptRowsAddToOneTicker(sa_result, adds)

\* A direct holding, a swap of the same ticker and rows that are left out.
C26_Witness ==
  /\ pc = "fetched"
  /\ ~Raised(sa_result)
  /\ Len(sa_rows) = 3
  /\ \E n \in 1..Len(sa_rows) : LeftOut(RowAdd(sa_rows[n]))
  /\ sa_result.holdings = << [k |-> "NVDA", v |-> FromInt(16)] >>
  /\ sa_result.holdings_by_name = << [k |-> "NVIDIA", v |-> FromInt(16)] >>

\* "Nvidia Corp Swap" at 8% and "NVDA Swap" at -8% leave NVDA at 0.
C26_Cancelled ==
  /\ pc = "fetched"
  /\ ~Raised(sa_result)
  /\ sa_result.holdings = << [k |-> "NVDA", v |-> FZero] >>

\* ------------------------------------------------------------------------
\* fetch_mag7_quotes applied to what Yahoo Finance answers
\* ------------------------------------------------------------------------
\* The tickers whose answers vary; the others answer with QuietAnswer.
MaxQuoted == 2

\* What yf.Ticker(t) answers: fast_info's prices and info, or raised when
\* the ticker's try block raises.
QuoteAnswerVals ==
  { [raised |-> "HTTPError"],
    [last_price |-> FDec(1025, 1), previous_close |-> FromInt(100),
     info |-> [raised |-> "HTTPError"]],
    [last_price |-> FDec(1025, 1), previous_close |-> FZero,
     info |-> [raised |-> "HTTPError"]],
    [last_price |-> FDec(1025, 1), previous_close |-> None,
     info |-> [raised |-> "HTTPError"]],
    [last_price |-> FDec(1025, 1), previous_close |-> None,
     info |-> [regularMarketPrice |-> None,
               regularMarketPreviousClose |-> FromInt(100)]],
    [last_price |-> None, previous_close |-> FromInt(100),
     info |-> [regularMarketPrice |-> FromInt(98)]],
    [last_price |-> None, previous_close |-> None,
     info |-> [regularMarketPrice |-> FromInt(98),
               regularMarketPreviousClose |-> FromInt(100)]],
    [last_price |-> None, previous_close |-> None, info |-> <<>>] }

\* The answer of the tickers that do not vary.
QuietAnswer ==
  [last_price |-> FromInt(50), previous_close |-> FromInt(50), info |-> <<>>]

\* The answers of the seven tickers.
QuoteFeeds ==
  { [ i \in 1..Len(MAG7_TICKERS) |-> IF i <= MaxQuoted THEN f[i] ELSE QuietAnswer ] :
      f \in [1..MaxQuoted -> QuoteAnswerVals] }

InitQuotes ==
  /\ pc = "quote"
  /\ quote_import \in BOOLEAN
  /\ quote_feed \in QuoteFeeds
  /\ quotes = <<>> /\ use_live_bumps = FALSE /\ edits = <<>>
  /\ manual_nav = FZero /\ proj_weights = None
  /\ NormIdle /\ WhatIfIdle /\ SaIdle /\ BumpIdle /\ WebIdle /\ FetchIdle

FetchQuotes ==
  /\ pc = "quote"
  /\ quotes' = fetch_mag7_quotes(quote_import, quote_feed)
  /\ pc' = "quoted"
  /\ UNCHANGED <<use_live_bumps, edits, manual_nav, proj_weights, quoteVars,
                 normVars, whatIfVars, saVars, bumpVars, webVars, fetchVars>>

NextQuotes == FetchQuotes

SpecQuotes == InitQuotes /\ [][NextQuotes]_vars

\* ------------------------------------------------------------------------
\* C27: the quotes returned by fetch_mag7_quotes
\* ------------------------------------------------------------------------
\* The ticker's try block raised, or yfinance did not import.
QuoteFailed(i) ==
  IF quote_import THEN "raised" \in DOMAIN quote_feed[i] ELSE TRUE

\* The last price and the previous close the entry of ticker i reports.
KnownLast(i) == quotes[i].v.last # None

KnownNonZeroClose(i) ==
  IF quotes[i].v.prev_close = None THEN FALSE ELSE ~FIsZero(quotes[i].v.prev_close)

\* C27: fetch_mag7_quotes returns an entry for each of the seven tickers,
\* whatever fails; chg and chg_pct are both absent or both present, and
\* present exactly when a last price and a non-zero previous close are known,
\* with chg_pct = 100 * (last - prev) / prev; the entry of a ticker that
\* failed is all-absent, and the entries of the others are what they are
\* when no ticker fails.
C27_QuotesNeverRaise ==
  pc = "quoted" =>
    /\ Len(quotes) = 7
    /\ \A i \in 1..7 :
         /\ quotes[i].k = MAG7_TICKERS[i]
         /\ DOMAIN quotes[i].v = {"last", "prev_close", "chg", "chg_pct"}
         /\ (quotes[i].v.chg = None) <=> (quotes[i].v.chg_pct = None)
         /\ (quotes[i].v.chg_pct # None) <=> (KnownLast(i) /\ KnownNonZeroClose(i))
         /\ quotes[i].v.chg_pct # None =>
              /\ quotes[i].v.chg = FSub(quotes[i].v.last, quotes[i].v.prev_close)
              /\ quotes[i].v.chg_pct =
                   FDiv(FMul(FromInt(100),
                             FSub(quotes[i].v.last, quotes[i].v.prev_close)),
                        quotes[i].v.prev_close)
         /\ QuoteFailed(i) => quotes[i].v = AbsentQuote
         /\ ~QuoteFailed(i) =>
              quotes[i].v =
                fetch_mag7_quotes(TRUE, [j \in 1..7 |-> quote_feed[i]])[i].v

\* NVDA's ticker raised and AAPL's did not: NVDA's entry is all-absent and
\* AAPL's has its change.
C27_Witness ==
  /\ pc = "quoted"
  /\ quote_import
  /\ QuoteFailed(1)
  /\ quotes[1].v = AbsentQuote
  /\ quotes[2].v.chg = FDec(25, 1)
  /\ quotes[2].v.chg_pct = FDec(25, 1)

\* A previous close of 0: the last price is reported, the change is not.
C27_ZeroClose ==
  /\ pc = "quoted"
  /\ quotes[1].v.last = FDec(1025, 1)
  /\ quotes[1].v.prev_close = FZero
  /\ quotes[1].v.chg_pct = None

====
